---- MODULE Spec2Model ----
(***************************************************************************)
(* Transaction lifecycle of cryptoheir-rs: the prepare command             *)
(* (commands/prepare.rs, contract.rs), the sign command (commands/sign.rs, *)
(* crypto.rs, tui.rs), the broadcast command (commands/broadcast.rs), the  *)
(* receipt waiter (network.rs) and the JSON hand-off files (types.rs).     *)
(* The network behind the RPC client is the environment.                   *)
(***************************************************************************)
EXTENDS Integers, Sequences, FiniteSets, TLC

(* ------------------------------ bounds --------------------------------- *)
\* number of broadcast invocations run in sequence on the same input file
MaxRuns == 2
\* chain ids range over 1..MaxChainId
MaxChainId == 2

(* ------------------------- program constants --------------------------- *)
MAX_ATTEMPTS == 60

(* --------------------------- Option / Result --------------------------- *)
None == {}
Some(v) == {v}
IsSome(o) == o # {}
Unwrap(o) == CHOOSE v \in o : TRUE

Ok(v) == [is_ok |-> TRUE, value |-> {v}, err |-> ""]
Err(e) == [is_ok |-> FALSE, value |-> {}, err |-> e]

(* ------------------------------ hashing -------------------------------- *)
\* keccak256 is collision resistant: distinct preimages give distinct digests
Keccak256(preimage) == [keccak256 |-> preimage]

\* the encoding a transaction is signed over (no signature in it)
encoded_for_signing(tx) == [payload |-> tx, signature |-> None]
\* the wire encoding of the envelope: payload and signature
encoded_2718(tx, signature) == [payload |-> tx, signature |-> Some(signature)]

signature_hash(tx) == Keccak256(encoded_for_signing(tx))
\* deterministic ECDSA: one signature per (key, hash)
sign_hash(signer, hash) == [by |-> signer, over |-> hash]

(* ------------------------------ integers ------------------------------- *)
\* a U256 is four 64-bit limbs, least significant first
ZERO == <<0, 0, 0, 0>>
fits_u64(v) == v[2] = 0 /\ v[3] = 0 /\ v[4] = 0
fits_u128(v) == v[3] = 0 /\ v[4] = 0
\* Uint::to::<u64>() and Uint::to::<u128>() on a value that fits
to_u64(v) == v[1]
to_u128(v) == <<v[1], v[2]>>

(* ------------------------------- Signer -------------------------------- *)
ChainIds == 1..MaxChainId
\* the signing key the descriptors are prepared for, and its address
PrivateKey == 1
address(signer) == [address_of |-> signer]
\* PRIVATE_KEY as found in the environment: 0 does not parse as a key
PrivateKeys == {0, 1, 2}
parse_private_key(k) == IF k = 0 THEN Err("invalid private key") ELSE Ok(k)

\* the sender of a signed encoding is recovered from its signature
recover_signer(raw) ==
    LET sig == Unwrap(raw.signature) IN
    IF sig.over = Keccak256([payload |-> raw.payload, signature |-> None])
    THEN address(sig.by) ELSE address(0)

\* Address::create: the address of a contract deployed by (sender, nonce)
create(sender, nonce) == [create |-> <<sender, nonce>>]

\* a panic of the signing code: the process aborts
Panic(msg) == [is_ok |-> FALSE, value |-> {}, err |-> msg, panic |-> TRUE]
IsPanic(res) == "panic" \in DOMAIN res

\* tx_data.to.map(TxKind::Call).unwrap_or(TxKind::Create)
TxKind(to) == IF IsSome(to) THEN [kind |-> "Call", to |-> to]
              ELSE [kind |-> "Create", to |-> None]

\* a payload whose fee cap is taken from gasPrice when that is present
TxEip1559_prefers_gas_price(tx_data) ==
    [ty |-> "TxEip1559",
     chain_id |-> tx_data.chain_id,
     nonce |-> tx_data.nonce,
     gas_limit |-> to_u64(tx_data.gas_limit),
     max_fee_per_gas |-> IF IsSome(tx_data.gas_price)
                         THEN to_u128(Unwrap(tx_data.gas_price))
                         ELSE to_u128(Unwrap(tx_data.max_fee_per_gas)),
     max_priority_fee_per_gas |-> to_u128(Unwrap(tx_data.max_priority_fee_per_gas)),
     to |-> TxKind(tx_data.to),
     value |-> IF IsSome(tx_data.value) THEN Unwrap(tx_data.value) ELSE ZERO,
     input |-> tx_data.data]

\* sign_eip1559: the TxEip1559 payload
TxEip1559(tx_data) ==
    [ty |-> "TxEip1559",
     chain_id |-> tx_data.chain_id,
     nonce |-> tx_data.nonce,
     gas_limit |-> to_u64(tx_data.gas_limit),
     max_fee_per_gas |-> to_u128(Unwrap(tx_data.max_fee_per_gas)),
     max_priority_fee_per_gas |-> to_u128(Unwrap(tx_data.max_priority_fee_per_gas)),
     to |-> TxKind(tx_data.to),
     value |-> IF IsSome(tx_data.value) THEN Unwrap(tx_data.value) ELSE ZERO,
     input |-> tx_data.data]

\* a payload whose gas price is taken from maxFeePerGas when that is present
TxLegacy_prefers_max_fee(tx_data) ==
    [ty |-> "TxLegacy",
     chain_id |-> Some(tx_data.chain_id),
     nonce |-> tx_data.nonce,
     gas_price |-> IF IsSome(tx_data.max_fee_per_gas)
                   THEN to_u128(Unwrap(tx_data.max_fee_per_gas))
                   ELSE to_u128(Unwrap(tx_data.gas_price)),
     gas_limit |-> to_u64(tx_data.gas_limit),
     to |-> TxKind(tx_data.to),
     value |-> IF IsSome(tx_data.value) THEN Unwrap(tx_data.value) ELSE ZERO,
     input |-> tx_data.data]

\* sign_legacy: the TxLegacy payload
TxLegacy(tx_data) ==
    [ty |-> "TxLegacy",
     chain_id |-> Some(tx_data.chain_id),
     nonce |-> tx_data.nonce,
     gas_price |-> to_u128(Unwrap(tx_data.gas_price)),
     gas_limit |-> to_u64(tx_data.gas_limit),
     to |-> TxKind(tx_data.to),
     value |-> IF IsSome(tx_data.value) THEN Unwrap(tx_data.value) ELSE ZERO,
     input |-> tx_data.data]

\* a content hash taken from the signed encoding
content_hash_of_encoding(tx, encoded) == Keccak256(encoded)

\* sign_eip1559, sign_legacy: `let tx_hash = tx.signature_hash()`
content_hash(tx, encoded) == signature_hash(tx)

\* sign_eip1559, sign_legacy: hash, sign, wrap in the envelope and encode
sign_and_encode(tx, signer) ==
    LET sig_hash == signature_hash(tx)
        signature == sign_hash(signer, sig_hash)
        encoded == encoded_2718(tx, signature)
    IN  Ok(<<encoded, content_hash(tx, encoded)>>)

sign_eip1559(tx_data, signer) ==
    IF ~IsSome(tx_data.max_fee_per_gas)
    THEN Err("max_fee_per_gas required for EIP-1559")
    ELSE IF ~IsSome(tx_data.max_priority_fee_per_gas)
    THEN Err("max_priority_fee_per_gas required for EIP-1559")
    ELSE IF ~ /\ fits_u64(tx_data.gas_limit)
              /\ fits_u128(Unwrap(tx_data.max_fee_per_gas))
              /\ fits_u128(Unwrap(tx_data.max_priority_fee_per_gas))
    THEN Panic("Uint conversion error")
    ELSE sign_and_encode(TxEip1559(tx_data), signer)

\* a legacy signing that takes a missing gas price for zero
sign_legacy_defaulting(tx_data, signer) ==
    LET priced == [tx_data EXCEPT
                      !.gas_price = IF IsSome(@) THEN @ ELSE Some(ZERO)]
    IN  IF ~ /\ fits_u128(Unwrap(priced.gas_price))
             /\ fits_u64(priced.gas_limit)
        THEN Panic("Uint conversion error")
        ELSE sign_and_encode(TxLegacy(priced), signer)

sign_legacy(tx_data, signer) ==
    IF ~IsSome(tx_data.gas_price)
    THEN Err("gas_price required for legacy transaction")
    ELSE IF ~ /\ fits_u128(Unwrap(tx_data.gas_price))
              /\ fits_u64(tx_data.gas_limit)
    THEN Panic("Uint conversion error")
    ELSE sign_and_encode(TxLegacy(tx_data), signer)

\* a signer check that accepts any key
signer_matches_any(signer_address, tx_params) == TRUE

\* sign_transaction: signer_address != tx_params.transaction.from
signer_matches(signer_address, tx_params) ==
    signer_address = tx_params.transaction.from

\* a prediction attached whatever the mode
predicted_contract_address_always(mode, signer_address, nonce) ==
    Some(create(signer_address, nonce))

\* sign_transaction: the predicted contract address
predicted_contract_address(mode, signer_address, nonce) ==
    IF mode = "Deploy" THEN Some(create(signer_address, nonce)) ELSE None

\* metadata rebuilt from scratch instead of cloned
signed_metadata_rebuilt(metadata, now) ==
    [metadata EXCEPT !.signed = TRUE, !.signed_at = Some(now),
                     !.timestamp = now]

\* sign_transaction: the updated metadata
signed_metadata(metadata, now) ==
    [metadata EXCEPT !.signed = TRUE, !.signed_at = Some(now)]

\* sign_transaction(tx_params, private_key), signing at time now
sign_transaction(tx_params, private_key, now) ==
    LET parsed == parse_private_key(private_key) IN
    IF ~parsed.is_ok THEN parsed
    ELSE
    LET signer == Unwrap(parsed.value)
        signer_address == address(signer)
        tx_data == tx_params.transaction
    IN
    IF ~signer_matches(signer_address, tx_params)
    THEN Err("Private key address does not match transaction from address")
    ELSE
    LET signed == IF tx_data.tx_type = 2 THEN sign_eip1559(tx_data, signer)
                  ELSE IF tx_data.tx_type = 0 THEN sign_legacy(tx_data, signer)
                  ELSE Err("Unsupported transaction type")
    IN
    IF ~signed.is_ok THEN signed
    ELSE Ok([signed_transaction |-> Unwrap(signed.value)[1],
             tx_hash |-> Unwrap(signed.value)[2],
             mode |-> tx_params.mode,
             from |-> tx_data.from,
             predicted_contract_address |->
                 predicted_contract_address(tx_params.mode, signer_address,
                                            tx_data.nonce),
             metadata |-> signed_metadata(tx_params.metadata, now)])

(* ----------------------------- descriptors ----------------------------- *)
Small == <<1, 0, 0, 0>>
\* 2^64 and 2^128
Pow64 == <<0, 1, 0, 0>>
Pow128 == <<0, 0, 1, 0>>
Nonces == {0, 1}
Times == {"t1", "t2"}

\* the parts of a descriptor that the signature does not cover
Labels ==
    {[function_name |-> None, params |-> None, name |-> "sepolia",
      rpc_url |-> None, estimated_cost |-> "0.000042", timestamp |-> "t0"],
     [function_name |-> Some("deposit"), params |-> Some("args"),
      name |-> "custom", rpc_url |-> Some("http://localhost:8545"),
      estimated_cost |-> "unknown", timestamp |-> "t1"]}

Metadata(l, c, p, s) ==
    [network |-> [name |-> l.name, chain_id |-> c, rpc_url |-> l.rpc_url],
     estimated_cost |-> l.estimated_cost,
     timestamp |-> l.timestamp,
     prepared |-> p,
     signed |-> s,
     signed_at |-> IF s THEN Some("t0") ELSE None]

\* transaction bodies a descriptor file can hold
TransactionDatas ==
    [tx_type : {0, 1, 2},
     from : {address(PrivateKey)},
     to : {None, Some(address(9))},
     data : {"0x"},
     nonce : Nonces,
     chain_id : ChainIds,
     gas_limit : {Small, Pow64},
     max_fee_per_gas : {None, Some(Small), Some(Pow128)},
     max_priority_fee_per_gas : {None, Some(Small)},
     gas_price : {None, Some(Small), Some(Pow128)},
     value : {None, Some(Small)}]

TxParams(mode, l, t, m) ==
    [mode |-> mode, function_name |-> l.function_name, params |-> l.params,
     transaction |-> t, metadata |-> m]

\* tx-params.json files sign can deserialize
TxParamsFiles ==
    {TxParams(mode, l, t, Metadata(l, c, p, s)) :
        mode \in {"Deploy", "Call"}, l \in Labels, t \in TransactionDatas,
        c \in ChainIds, p \in BOOLEAN, s \in BOOLEAN}

\* descriptors as the Composer writes them: fees of one family, chain id of
\* the network in body and metadata
ComposedTxParams ==
    {TxParams("Deploy", l, t, Metadata(l, t.chain_id, TRUE, FALSE)) :
        l \in {x \in Labels : x.name = "sepolia"},
        t \in {x \in TransactionDatas :
                 /\ x.to = None /\ x.nonce = 0 /\ x.value = None
                 /\ x.gas_limit = Small
                 /\ \/ /\ x.tx_type = 2
                       /\ x.max_fee_per_gas = Some(Small)
                       /\ x.max_priority_fee_per_gas = Some(Small)
                       /\ x.gas_price = None
                    \/ /\ x.tx_type = 0
                       /\ x.max_fee_per_gas = None
                       /\ x.max_priority_fee_per_gas = None
                       /\ x.gas_price = Some(Small)}}

\* signed-tx.json files the Signer writes
SignerOutputs ==
    {Unwrap(sign_transaction(d, PrivateKey, "t1").value) : d \in ComposedTxParams}
\* descriptor files whose metadata names another network than the body; the
\* validation of sign does not compare the two chain ids
ForeignChainTxParams ==
    UNION {{[d EXCEPT !.metadata.network.chain_id = c] :
               c \in ChainIds \ {d.transaction.chain_id}} :
           d \in ComposedTxParams}
\* the signed-tx.json files the Signer writes for them
ForeignChainOutputs ==
    {Unwrap(sign_transaction(d, PrivateKey, "t1").value) :
        d \in ForeignChainTxParams}
\* signed-tx.json files broadcast can deserialize: the Signer's, and files
\* whose txHash field holds the hash of the signed encoding
SignedTxFiles ==
    SignerOutputs \cup
    {[s EXCEPT !.tx_hash = Keccak256(s.signed_transaction)] : s \in SignerOutputs}
    \cup ForeignChainOutputs

(* ------------------------------- state --------------------------------- *)
VARIABLES
    signed_tx,      \* the deserialized input file of broadcast
    net_chain_id,   \* chain id of the connected network
    net_pool,       \* raw transactions the network holds as pending
    net_mined,      \* mined transactions, with their block and status
    pc,             \* position of the broadcast invocation
    run,            \* number of the current invocation
    chain_id,       \* execute: chain id read from the client
    existing_tx,    \* execute: result of the idempotency lookup
    sent_hash,      \* hash returned by broadcast_transaction
    attempts,       \* wait_for_receipt: attempts
    outcome,        \* how the invocation ended
    receipt,        \* the TxReceipt wait_for_receipt returned
    output_file,    \* content of the receipt file on disk
    lookups,        \* get_transaction calls of this invocation
    submits,        \* send_raw_transaction calls of this invocation
    polls,          \* get_transaction_receipt calls of this invocation
    sleeps,         \* sleeps of this invocation
    writes,         \* receipt file writes of this invocation
    hashes,         \* hashes this invocation queried the network with
    prev,           \* summary of the previous invocation
    tx_params,      \* sign: the deserialized descriptor
    sign_pc,        \* sign: position of the invocation
    sign_outcome,   \* sign: how the invocation ended
    review,         \* sign: what happened at the review step
    private_key,    \* sign: PRIVATE_KEY read from the environment
    warnings,       \* sign: warnings logged by the validation
    signed_file,    \* sign: content of the signed-tx file on disk
    rpc_log,        \* RPC capabilities this invocation has invoked
    operation,      \* prepare: the operation given on the command line
    prep_pc,        \* prepare: position of the invocation
    prep_outcome,   \* prepare: how the invocation ended
    prep_local,     \* prepare: the local bindings of execute
    prep_tx_params, \* prepare: the TxParams value built
    tx_params_file  \* prepare: content of the tx-params file on disk

vars == <<signed_tx, net_chain_id, net_pool, net_mined, pc, run, chain_id,
          existing_tx, sent_hash, attempts, outcome, receipt, output_file,
          lookups, submits, polls, sleeps, writes, hashes, prev,
          tx_params, sign_pc, sign_outcome, review, private_key, warnings,
          signed_file, rpc_log, operation, prep_pc, prep_outcome, prep_local,
          prep_tx_params, tx_params_file>>

sign_vars == <<tx_params, sign_pc, sign_outcome, review, warnings,
               signed_file>>
prepare_vars == <<operation, prep_pc, prep_outcome, prep_local,
                  prep_tx_params, tx_params_file>>
broadcast_vars == <<signed_tx, net_chain_id, net_pool, net_mined, pc, run,
                    chain_id, existing_tx, sent_hash, attempts, outcome,
                    receipt, output_file, lookups, submits, polls, sleeps,
                    writes, hashes, prev>>
net_vars == <<net_chain_id, net_pool, net_mined>>
count_vars == <<lookups, submits, polls, sleeps, writes>>

(* ------------------------------ network -------------------------------- *)
\* the chain id a signed encoding is bound to (EIP-155, EIP-1559)
payload_chain_id(raw) ==
    IF raw.payload.ty = "TxLegacy" THEN Unwrap(raw.payload.chain_id)
    ELSE raw.payload.chain_id

NetKnown == net_pool \cup {m.raw : m \in net_mined}

\* eth_getTransactionByHash: the network indexes a transaction by the hash
\* of its signed encoding
eth_getTransactionByHash(h) == {raw \in NetKnown : Keccak256(raw) = h}

\* eth_getTransactionReceipt: the answers a node can give for hash h
eth_getTransactionReceipt(h) ==
    LET mined == {m \in net_mined : Keccak256(m.raw) = h}
        pending == {raw \in net_pool : Keccak256(raw) = h}
    IN  IF mined # {}
        THEN {Some([transaction_hash |-> h,
                    block_number |-> Some(m.block_number),
                    block_hash |-> Some(m.block_hash),
                    from |-> recover_signer(m.raw),
                    status |-> m.status]) : m \in mined}
        ELSE IF pending # {}
        THEN \* not mined yet: no receipt, or a receipt that lacks the
             \* block number, the block hash or both
             {None} \cup
             {Some([transaction_hash |-> h,
                    block_number |-> shape[1],
                    block_hash |-> shape[2],
                    from |-> recover_signer(raw),
                    status |-> TRUE]) :
                 raw \in pending,
                 shape \in {<<None, None>>, <<None, Some(0)>>, <<Some(0), None>>}}
        ELSE {None}

\* the RPC capabilities a function of the program invokes: the client
\* wrappers of network.rs call the node, nothing else does
network_rpc(f) ==
    CASE f = "network::get_chain_id" -> {"eth_chainId"}
      [] f = "network::get_nonce" -> {"eth_getTransactionCount"}
      [] f = "network::get_fee_history" -> {"eth_feeHistory"}
      [] f = "network::get_gas_price" -> {"eth_gasPrice"}
      [] f = "network::estimate_gas" -> {"eth_estimateGas"}
      [] f = "network::get_transaction" -> {"eth_getTransactionByHash"}
      [] f = "network::broadcast_transaction" -> {"eth_sendRawTransaction"}
      [] f = "network::wait_for_receipt" -> {"eth_getTransactionReceipt"}
      [] OTHER -> {}

\* a Signer that asks the node for the nonce
rpc_calls_signer_online(f) ==
    IF f = "crypto::sign_transaction" THEN {"eth_getTransactionCount"}
    ELSE network_rpc(f)

\* the RPC capabilities invoked by a call of f
rpc_calls(f) == network_rpc(f)

\* PRIVATE_KEY as Config::load finds it on a networked machine
EnvPrivateKeys == {None, Some(PrivateKey)}

\* the network mines a pending transaction
Mine ==
    /\ \E raw \in net_pool, st \in BOOLEAN :
          /\ net_pool' = net_pool \ {raw}
          /\ net_mined' = net_mined \cup
                {[raw |-> raw, block_number |-> Cardinality(net_mined) + 1,
                  block_hash |-> Cardinality(net_mined) + 1, status |-> st]}
    /\ UNCHANGED <<signed_tx, net_chain_id, pc, run, chain_id, existing_tx,
                   sent_hash, attempts, outcome, receipt, output_file,
                   lookups, submits, polls, sleeps, writes, hashes, prev>>
    /\ UNCHANGED <<private_key, rpc_log>>
    /\ UNCHANGED <<sign_vars, prepare_vars>>

(* --------------------------- network.rs -------------------------------- *)
\* block_hash is stored as the debug formatting of the hash
format_hash(h) == <<"0x", h>>

\* a conversion that fills a missing block number or hash with a default
receipt_to_tx_receipt_defaulting(r) ==
    Ok([transaction_hash |-> r.transaction_hash,
        block_number |-> IF IsSome(r.block_number) THEN Unwrap(r.block_number) ELSE 0,
        block_hash |-> format_hash(IF IsSome(r.block_hash) THEN Unwrap(r.block_hash) ELSE 0),
        from |-> r.from,
        status |-> IF r.status THEN 1 ELSE 0])

\* a conversion that takes a failed execution for an error
receipt_to_tx_receipt_success_only(r) ==
    IF ~IsSome(r.block_number) THEN Err("No block number")
    ELSE IF ~IsSome(r.block_hash) THEN Err("No block hash")
    ELSE IF ~r.status THEN Err("Transaction failed")
    ELSE Ok([transaction_hash |-> r.transaction_hash,
             block_number |-> Unwrap(r.block_number),
             block_hash |-> format_hash(Unwrap(r.block_hash)),
             from |-> r.from,
             status |-> 1])

\* receipt_to_tx_receipt: alloy receipt to TxReceipt
receipt_to_tx_receipt(r) ==
    IF ~IsSome(r.block_number) THEN Err("No block number")
    ELSE IF ~IsSome(r.block_hash) THEN Err("No block hash")
    ELSE Ok([transaction_hash |-> r.transaction_hash,
             block_number |-> Unwrap(r.block_number),
             block_hash |-> format_hash(Unwrap(r.block_hash)),
             from |-> r.from,
             status |-> IF r.status THEN 1 ELSE 0])

\* a loop test that is off by one
attempts_exhausted_late(n) == n > MAX_ATTEMPTS

\* wait_for_receipt: the test that ends the polling loop
attempts_exhausted(n) == n >= MAX_ATTEMPTS

(* ------------------------ commands/broadcast.rs ------------------------ *)
\* a chain id check that never fires
chain_id_mismatch_ignored(observed, stx) == FALSE

\* execute: the chain id check
chain_id_mismatch(observed, stx) == observed # stx.metadata.network.chain_id

\* a branch that submits whatever the lookup found
already_broadcast_never(existing) == FALSE

\* a branch that submits what the lookup found and waits for the rest
already_broadcast_inverted(existing) == ~existing.is_ok

\* execute: existing_tx.is_ok()
already_broadcast(existing) == existing.is_ok

\* the invocation ends with an error
Fail(e) ==
    /\ pc' = "done"
    /\ outcome' = e

\* execute: Config::load, network::get_chain_id and the comparison with the
\* metadata
execute_get_chain_id ==
    /\ pc = "get_chain_id"
    /\ private_key' \in EnvPrivateKeys
    /\ rpc_log' = rpc_log \cup rpc_calls("network::get_chain_id")
    /\ \/ /\ Fail("RpcError")
          /\ UNCHANGED chain_id
       \/ /\ chain_id' = Some(net_chain_id)
          /\ IF chain_id_mismatch(net_chain_id, signed_tx)
             THEN Fail("ChainIdMismatch")
             ELSE pc' = "get_transaction" /\ UNCHANGED outcome
    /\ UNCHANGED <<signed_tx, net_vars, run, existing_tx, sent_hash, attempts,
                   receipt, output_file, count_vars, hashes, prev>>
    /\ UNCHANGED <<sign_vars, prepare_vars>>

\* network::get_transaction: a failed call and an absent transaction are
\* both Err
get_transaction(h) ==
    {Err("RpcError")} \cup
    (IF IsSome(eth_getTransactionByHash(h))
     THEN {Ok(Unwrap(eth_getTransactionByHash(h)))}
     ELSE {Err("Transaction not found")})

\* execute: the idempotency lookup and the branch on its result
execute_get_transaction ==
    /\ pc = "get_transaction"
    /\ \E res \in get_transaction(signed_tx.tx_hash) :
          /\ existing_tx' = Some(res)
          /\ pc' = IF already_broadcast(res) THEN "wait_for_receipt"
                   ELSE "broadcast_transaction"
    /\ lookups' = lookups + 1
    /\ hashes' = hashes \cup {signed_tx.tx_hash}
    /\ rpc_log' = rpc_log \cup rpc_calls("network::get_transaction")
    /\ UNCHANGED private_key
    /\ UNCHANGED <<signed_tx, net_vars, run, chain_id, sent_hash, attempts,
                   outcome, receipt, output_file, submits, polls, sleeps,
                   writes, prev>>
    /\ UNCHANGED <<sign_vars, prepare_vars>>

\* the network accepts a raw transaction that is new to it and is signed
\* for its chain
NetAccepts(raw) == raw \notin NetKnown /\ payload_chain_id(raw) = net_chain_id

\* execute: network::broadcast_transaction; the returned hash is dropped
execute_broadcast_transaction ==
    /\ pc = "broadcast_transaction"
    /\ submits' = submits + 1
    /\ rpc_log' = rpc_log \cup rpc_calls("network::broadcast_transaction")
    /\ UNCHANGED private_key
    /\ LET raw == signed_tx.signed_transaction IN
       \/ \* the node accepts the transaction and answers with its hash
          /\ NetAccepts(raw)
          /\ net_pool' = net_pool \cup {raw}
          /\ sent_hash' = Some(Keccak256(raw))
          /\ pc' = "wait_for_receipt"
          /\ UNCHANGED outcome
       \/ \* the node rejects it (already known, wrong chain, no funds)
          /\ Fail("SubmitError")
          /\ UNCHANGED <<net_pool, sent_hash>>
       \/ \* the node accepts it but the answer is lost
          /\ NetAccepts(raw)
          /\ net_pool' = net_pool \cup {raw}
          /\ Fail("SubmitError")
          /\ UNCHANGED sent_hash
    /\ UNCHANGED <<signed_tx, net_chain_id, net_mined, run, chain_id,
                   existing_tx, attempts, receipt, output_file, lookups,
                   polls, sleeps, writes, hashes, prev>>
    /\ UNCHANGED <<sign_vars, prepare_vars>>

\* wait_for_receipt: one iteration of the loop up to the sleep; on a receipt
\* execute serializes it and writes the receipt file
wait_for_receipt_poll ==
    /\ pc = "wait_for_receipt"
    /\ polls' = polls + 1
    /\ hashes' = hashes \cup {signed_tx.tx_hash}
    /\ rpc_log' = rpc_log \cup rpc_calls("network::wait_for_receipt")
    /\ UNCHANGED private_key
    /\ \/ \* the RPC call fails: `?` returns the error
          /\ Fail("RpcError")
          /\ UNCHANGED <<attempts, receipt, output_file, writes>>
       \/ \E answer \in eth_getTransactionReceipt(signed_tx.tx_hash) :
             IF IsSome(answer)
             THEN LET res == receipt_to_tx_receipt(Unwrap(answer)) IN
                  IF res.is_ok
                  THEN /\ receipt' = res.value
                       /\ output_file' = res.value
                       /\ writes' = writes + 1
                       /\ pc' = "done"
                       /\ outcome' = "Confirmed"
                       /\ UNCHANGED attempts
                  ELSE /\ Fail(res.err)
                       /\ UNCHANGED <<attempts, receipt, output_file, writes>>
             ELSE /\ attempts' = attempts + 1
                  /\ IF attempts_exhausted(attempts + 1)
                     THEN Fail("Timeout")
                     ELSE pc' = "sleep" /\ UNCHANGED outcome
                  /\ UNCHANGED <<receipt, output_file, writes>>
    /\ UNCHANGED <<signed_tx, net_vars, run, chain_id, existing_tx, sent_hash,
                   lookups, submits, sleeps, prev>>
    /\ UNCHANGED <<sign_vars, prepare_vars>>

\* wait_for_receipt: tokio::time::sleep(POLL_INTERVAL)
wait_for_receipt_sleep ==
    /\ pc = "sleep"
    /\ sleeps' = sleeps + 1
    /\ pc' = "wait_for_receipt"
    /\ UNCHANGED <<private_key, rpc_log>>
    /\ UNCHANGED <<signed_tx, net_vars, run, chain_id, existing_tx, sent_hash,
                   attempts, outcome, receipt, output_file, lookups, submits,
                   polls, writes, hashes, prev>>
    /\ UNCHANGED <<sign_vars, prepare_vars>>

\* the user runs broadcast again on the same file against the same network
Rerun ==
    /\ pc = "done"
    /\ run < MaxRuns
    /\ run' = run + 1
    /\ prev' = Some([outcome |-> outcome, receipt |-> receipt,
                     submits |-> submits, sent_hash |-> sent_hash,
                     existing_tx |-> existing_tx])
    /\ pc' = "get_chain_id"
    /\ chain_id' = None
    /\ existing_tx' = None
    /\ sent_hash' = None
    /\ attempts' = 0
    /\ outcome' = "running"
    /\ receipt' = None
    /\ lookups' = 0 /\ submits' = 0 /\ polls' = 0 /\ sleeps' = 0 /\ writes' = 0
    /\ hashes' = {}
    /\ private_key' = None
    /\ rpc_log' = {}
    /\ UNCHANGED <<signed_tx, net_vars, output_file>>
    /\ UNCHANGED <<sign_vars, prepare_vars>>

\* no sign invocation in this process
SignIdle ==
    /\ tx_params = None
    /\ sign_pc = "idle"
    /\ sign_outcome = "running"
    /\ review = "none"
    /\ private_key = None
    /\ warnings = {}
    /\ signed_file = None

\* no prepare invocation in this process
PrepareIdle ==
    /\ operation = None
    /\ prep_pc = "idle"
    /\ prep_outcome = "running"
    /\ prep_local = None
    /\ prep_tx_params = None
    /\ tx_params_file = None

Init ==
    /\ SignIdle
    /\ PrepareIdle
    /\ rpc_log = {}
    /\ signed_tx \in SignedTxFiles
    /\ net_chain_id \in ChainIds
    /\ net_mined = {}
    \* the transaction may have reached the network in an earlier session
    /\ net_pool \in {{}} \cup
          (IF payload_chain_id(signed_tx.signed_transaction) = net_chain_id
           THEN {{signed_tx.signed_transaction}} ELSE {})
    /\ pc = "get_chain_id"
    /\ run = 1
    /\ chain_id = None
    /\ existing_tx = None
    /\ sent_hash = None
    /\ attempts = 0
    /\ outcome = "running"
    /\ receipt = None
    /\ output_file = None
    /\ lookups = 0 /\ submits = 0 /\ polls = 0 /\ sleeps = 0 /\ writes = 0
    /\ hashes = {}
    /\ prev = None

\* the steps of one broadcast invocation
Broadcast ==
    \/ execute_get_chain_id
    \/ execute_get_transaction
    \/ execute_broadcast_transaction
    \/ wait_for_receipt_poll
    \/ wait_for_receipt_sleep

Next ==
    \/ execute_get_chain_id
    \/ execute_get_transaction
    \/ execute_broadcast_transaction
    \/ wait_for_receipt_poll
    \/ wait_for_receipt_sleep
    \/ Rerun
    \/ Mine

Spec == Init /\ [][Next]_vars

\* the runtime keeps driving the invocation: every RPC call returns and
\* every sleep ends
FairSpec == Spec /\ WF_vars(Broadcast)

TypeOK ==
    /\ signed_tx \in SignedTxFiles
    /\ pc \in {"get_chain_id", "get_transaction", "broadcast_transaction",
               "wait_for_receipt", "sleep", "done"}
    /\ run \in 1..MaxRuns
    /\ attempts \in 0..MAX_ATTEMPTS
    /\ outcome \in {"running", "Confirmed", "Timeout", "RpcError",
                    "SubmitError", "ChainIdMismatch", "No block number",
                    "No block hash"}

(* -------------------------- commands/sign.rs --------------------------- *)
\* a fee check that does not look at maxPriorityFeePerGas
check_gas_parameters_skips_priority(tx) ==
    IF tx.tx_type = 2
    THEN IF ~IsSome(tx.max_fee_per_gas)
         THEN Err("EIP-1559 transaction (type 2) requires maxFeePerGas but it is missing")
         ELSE Ok(IF IsSome(tx.gas_price) THEN {"gasPrice will be ignored"} ELSE {})
    ELSE IF tx.tx_type = 0
    THEN IF ~IsSome(tx.gas_price)
         THEN Err("Legacy transaction (type 0) requires gasPrice but it is missing")
         ELSE Ok(IF IsSome(tx.max_fee_per_gas) \/ IsSome(tx.max_priority_fee_per_gas)
                 THEN {"EIP-1559 fee fields will be ignored"} ELSE {})
    ELSE Err("Unsupported transaction type")

\* a fee check that lets every legacy body through
check_gas_parameters_legacy_unchecked(tx) ==
    IF tx.tx_type = 2
    THEN IF ~IsSome(tx.max_fee_per_gas)
         THEN Err("EIP-1559 transaction (type 2) requires maxFeePerGas but it is missing")
         ELSE IF ~IsSome(tx.max_priority_fee_per_gas)
         THEN Err("EIP-1559 transaction (type 2) requires maxPriorityFeePerGas but it is missing")
         ELSE Ok(IF IsSome(tx.gas_price) THEN {"gasPrice will be ignored"} ELSE {})
    ELSE IF tx.tx_type = 0
    THEN Ok({})
    ELSE Err("Unsupported transaction type")

\* execute: gas parameters must match the transaction type; Ok carries the
\* warnings logged
check_gas_parameters(tx) ==
    IF tx.tx_type = 2
    THEN IF ~IsSome(tx.max_fee_per_gas)
         THEN Err("EIP-1559 transaction (type 2) requires maxFeePerGas but it is missing")
         ELSE IF ~IsSome(tx.max_priority_fee_per_gas)
         THEN Err("EIP-1559 transaction (type 2) requires maxPriorityFeePerGas but it is missing")
         ELSE Ok(IF IsSome(tx.gas_price) THEN {"gasPrice will be ignored"} ELSE {})
    ELSE IF tx.tx_type = 0
    THEN IF ~IsSome(tx.gas_price)
         THEN Err("Legacy transaction (type 0) requires gasPrice but it is missing")
         ELSE Ok(IF IsSome(tx.max_fee_per_gas) \/ IsSome(tx.max_priority_fee_per_gas)
                 THEN {"EIP-1559 fee fields will be ignored"} ELSE {})
    ELSE Err("Unsupported transaction type")

\* a validation that lets every descriptor through
validate_nothing(tp) == Ok({})

\* a validation that looks at the fees before the prepared flag
validate_fees_first(tp) ==
    LET gas == check_gas_parameters(tp.transaction) IN
    IF ~gas.is_ok THEN gas
    ELSE IF ~tp.metadata.prepared THEN Err("Transaction has not been prepared")
    ELSE gas

\* execute: the checks between loading the descriptor and the review
validate(tp) ==
    IF ~tp.metadata.prepared THEN Err("Transaction has not been prepared")
    ELSE LET gas == check_gas_parameters(tp.transaction) IN
         IF ~gas.is_ok THEN gas
         ELSE Ok(Unwrap(gas.value) \cup
                 (IF tp.metadata.signed THEN {"already signed"} ELSE {}))

\* the sign invocation ends
SignEnd(o) ==
    /\ sign_pc' = "done"
    /\ sign_outcome' = o

\* execute: validation of the loaded descriptor
sign_validate ==
    /\ sign_pc = "validate"
    /\ LET v == validate(tx_params) IN
       IF v.is_ok
       THEN /\ warnings' = Unwrap(v.value)
            /\ sign_pc' = "review"
            /\ UNCHANGED sign_outcome
       ELSE /\ SignEnd(v.err)
            /\ UNCHANGED warnings
    /\ UNCHANGED <<tx_params, review, private_key, signed_file, rpc_log>>
    /\ UNCHANGED <<broadcast_vars, prepare_vars>>

\* what tui::review_transaction can return: Ok(true), Ok(false), or an
\* error when the terminal fails under the review UI
ReviewAnswers == {Ok(TRUE), Ok(FALSE), Err("ReviewError")}

\* execute: the branch on skip_review and on the answer of the review
review_decision(skip_review, answer) ==
    IF skip_review THEN "skipped"
    ELSE IF ~answer.is_ok THEN "failed"
    ELSE IF Unwrap(answer.value) THEN "approved"
    ELSE "rejected"

\* a review whose rejection does not stop the invocation
proceeds_after_review_unless_failed(decision) == decision # "failed"

\* execute: the invocation goes on to the key after an approval or a
\* skipped review
proceeds_after_review(decision) == decision \in {"skipped", "approved"}

\* the outcomes with which execute returns Ok(()): the process exits 0
ReturnsOk(o) == o \in {"Signed", "Cancelled"}

\* execute: the review, interactive unless --skip-review
sign_review ==
    /\ sign_pc = "review"
    /\ \E skip_review \in BOOLEAN, answer \in ReviewAnswers :
          LET decision == review_decision(skip_review, answer) IN
          /\ review' = decision
          /\ IF proceeds_after_review(decision)
             THEN sign_pc' = "load_key" /\ UNCHANGED sign_outcome
             ELSE SignEnd(IF decision = "rejected" THEN "Cancelled"
                          ELSE "ReviewError")
    /\ rpc_log' = rpc_log \cup rpc_calls("tui::review_transaction")
    /\ UNCHANGED <<tx_params, private_key, warnings, signed_file>>
    /\ UNCHANGED <<broadcast_vars, prepare_vars>>

\* execute: Config::load and the PRIVATE_KEY lookup
sign_load_key ==
    /\ sign_pc = "load_key"
    /\ \/ /\ SignEnd("PRIVATE_KEY not set in environment")
          /\ UNCHANGED private_key
       \/ \E k \in PrivateKeys :
             /\ private_key' = Some(k)
             /\ sign_pc' = "sign"
             /\ UNCHANGED sign_outcome
    /\ rpc_log' = rpc_log \cup rpc_calls("Config::load")
    /\ UNCHANGED <<tx_params, review, warnings, signed_file>>
    /\ UNCHANGED <<broadcast_vars, prepare_vars>>

\* execute: crypto::sign_transaction, the write of the signed file and the
\* optional QR code
sign_sign ==
    /\ sign_pc = "sign"
    /\ \E now \in Times :
          LET res == sign_transaction(tx_params, Unwrap(private_key), now) IN
          IF IsPanic(res)
          THEN SignEnd("Panic") /\ UNCHANGED signed_file
          ELSE IF ~res.is_ok
          THEN SignEnd(res.err) /\ UNCHANGED signed_file
          ELSE /\ signed_file' = res.value
               /\ \/ SignEnd("Signed")
                  \/ \* --generate-qr and qr::display_qr fails
                     SignEnd("QrError")
    /\ rpc_log' = rpc_log \cup rpc_calls("crypto::sign_transaction")
    /\ UNCHANGED <<tx_params, review, private_key, warnings>>
    /\ UNCHANGED <<broadcast_vars, prepare_vars>>

\* no broadcast invocation in this process
NoBroadcast ==
    /\ signed_tx = None
    /\ net_mined = {}
    /\ net_pool = {}
    /\ pc = "idle"
    /\ run = 1
    /\ chain_id = None
    /\ existing_tx = None
    /\ sent_hash = None
    /\ attempts = 0
    /\ outcome = "running"
    /\ receipt = None
    /\ output_file = None
    /\ lookups = 0 /\ submits = 0 /\ polls = 0 /\ sleeps = 0 /\ writes = 0
    /\ hashes = {}
    /\ prev = None

BroadcastIdle ==
    /\ net_chain_id = 1
    /\ NoBroadcast

SignInit ==
    /\ BroadcastIdle
    /\ PrepareIdle
    /\ rpc_log = {}
    /\ tx_params \in TxParamsFiles
    /\ sign_pc = "validate"
    /\ sign_outcome = "running"
    /\ review = "none"
    /\ private_key = None
    /\ warnings = {}
    /\ signed_file = None

SignNext ==
    \/ sign_validate
    \/ sign_review
    \/ sign_load_key
    \/ sign_sign

SignSpec == SignInit /\ [][SignNext]_vars

(* ------------------- crypto.rs as a library function ------------------- *)
\* descriptors a caller of the library hands to crypto::sign_transaction
\* without the validation of sign::execute
UnvalidatedTxParams ==
    {tp \in TxParamsFiles :
        /\ tp.function_name = None
        /\ ~tp.metadata.signed
        /\ tp.metadata.network.chain_id = tp.transaction.chain_id}

\* crypto::sign_transaction called on its own; signed_file holds the
\* SignedTx it returns, sign_outcome the error
crypto_sign_transaction ==
    /\ sign_pc = "sign_transaction"
    /\ \E now \in Times :
          LET res == sign_transaction(tx_params, Unwrap(private_key), now) IN
          IF IsPanic(res)
          THEN SignEnd("Panic") /\ UNCHANGED signed_file
          ELSE IF ~res.is_ok
          THEN SignEnd(res.err) /\ UNCHANGED signed_file
          ELSE /\ signed_file' = res.value
               /\ SignEnd("Signed")
    /\ rpc_log' = rpc_log \cup rpc_calls("crypto::sign_transaction")
    /\ UNCHANGED <<tx_params, review, private_key, warnings>>
    /\ UNCHANGED <<broadcast_vars, prepare_vars>>

SignerInit ==
    /\ BroadcastIdle
    /\ PrepareIdle
    /\ rpc_log = {}
    /\ tx_params \in UnvalidatedTxParams
    /\ sign_pc = "sign_transaction"
    /\ sign_outcome = "running"
    /\ review = "none"
    /\ private_key \in {Some(k) : k \in PrivateKeys}
    /\ warnings = {}
    /\ signed_file = None

SignerNext == crypto_sign_transaction

SignerSpec == SignerInit /\ [][SignerNext]_vars

(* --------------------------- types.rs: serde --------------------------- *)
\* JSON values
JNull == [json |-> "null"]
JBool(b) == [json |-> "bool", v |-> b]
JNumber(n) == [json |-> "number", v |-> n]
JString(s) == [json |-> "string", v |-> s]
JObject(fields) == [json |-> "object", v |-> fields]
EmptyObject == [k \in {} |-> JNull]

\* the error of a derived Deserialize for an absent field
MissingField(k) ==
    [is_ok |-> FALSE, value |-> {}, err |-> "missing field", field |-> k]

\* the first of the keys, in declaration order, that the object lacks
first_missing(fields, keys) ==
    LET absent == {i \in 1..Len(keys) : keys[i] \notin DOMAIN fields} IN
    IF absent = {} THEN None
    ELSE Some(keys[CHOOSE i \in absent : \A j \in absent : i <= j])

\* U256::to_string and str::parse::<U256>: the decimal digits
u256_to_string(v) == <<"decimal", v>>
u256_parse(str) == IF str[1] = "decimal" THEN Ok(str[2]) ELSE Err("invalid digit")
\* Address and Bytes are written as 0x-prefixed hexadecimal
to_hex(x) == <<"0x", x>>
from_hex(str) == IF str[1] = "0x" THEN Ok(str[2]) ELSE Err("invalid hex")

\* TransactionMode, rename_all = "lowercase"
mode_to_string(mode) == IF mode = "Deploy" THEN "deploy" ELSE "call"
mode_parse(str) ==
    IF str = "deploy" THEN Ok("Deploy")
    ELSE IF str = "call" THEN Ok("Call")
    ELSE Err("unknown variant")

\* skip_serializing_if = "Option::is_none" with optional_u256_hex::serialize
skipped_u256(key, opt) ==
    IF IsSome(opt) THEN key :> JString(u256_to_string(Unwrap(opt)))
    ELSE EmptyObject

\* Serialize for TransactionData
ser_TransactionData(t) ==
    JObject(("type" :> JNumber(t.tx_type)) @@
            ("from" :> JString(to_hex(t.from))) @@
            (IF IsSome(t.to) THEN "to" :> JString(to_hex(Unwrap(t.to)))
             ELSE EmptyObject) @@
            ("data" :> JString(to_hex(t.data))) @@
            ("nonce" :> JNumber(t.nonce)) @@
            ("chainId" :> JNumber(t.chain_id)) @@
            ("gasLimit" :> JString(u256_to_string(t.gas_limit))) @@
            skipped_u256("maxFeePerGas", t.max_fee_per_gas) @@
            skipped_u256("maxPriorityFeePerGas", t.max_priority_fee_per_gas) @@
            skipped_u256("gasPrice", t.gas_price) @@
            skipped_u256("value", t.value))

\* Serialize for Metadata and NetworkInfo
ser_Metadata(m) ==
    JObject(("network" :>
                JObject(("name" :> JString(m.network.name)) @@
                        ("chainId" :> JNumber(m.network.chain_id)) @@
                        ("rpcUrl" :> IF IsSome(m.network.rpc_url)
                                     THEN JString(Unwrap(m.network.rpc_url))
                                     ELSE JNull))) @@
            ("estimatedCost" :> JString(m.estimated_cost)) @@
            ("timestamp" :> JString(m.timestamp)) @@
            ("prepared" :> JBool(m.prepared)) @@
            ("signed" :> JBool(m.signed)) @@
            (IF IsSome(m.signed_at)
             THEN "signedAt" :> JString(Unwrap(m.signed_at))
             ELSE EmptyObject))

\* serde_json::to_string_pretty of a TxParams
to_string_pretty(tp) ==
    JObject(("mode" :> JString(mode_to_string(tp.mode))) @@
            (IF IsSome(tp.function_name)
             THEN "functionName" :> JString(Unwrap(tp.function_name))
             ELSE EmptyObject) @@
            (IF IsSome(tp.params) THEN "params" :> JObject(Unwrap(tp.params))
             ELSE EmptyObject) @@
            ("transaction" :> ser_TransactionData(tp.transaction)) @@
            ("metadata" :> ser_Metadata(tp.metadata)))

\* a field of type Option<_> without deserialize_with: absent or null is None
de_option(fields, key) ==
    IF key \notin DOMAIN fields THEN None
    ELSE IF fields[key].json = "null" THEN None
    ELSE Some(fields[key].v)

\* optional_u256_hex::deserialize on a field that is present
de_optional_u256(fields, key) ==
    IF fields[key].json = "null" THEN Ok(None)
    ELSE LET parsed == u256_parse(fields[key].v) IN
         IF parsed.is_ok THEN Ok(parsed.value) ELSE parsed

\* Deserialize for TransactionData: a field with deserialize_with and no
\* default must be present, a plain Option field may be absent
de_TransactionData(j) ==
    LET f == j.v
        missing == first_missing(f, <<"type", "from", "data", "nonce",
                                      "chainId", "gasLimit", "maxFeePerGas",
                                      "maxPriorityFeePerGas", "gasPrice",
                                      "value">>)
    IN  IF IsSome(missing) THEN MissingField(Unwrap(missing))
        ELSE
        LET from == from_hex(f["from"].v)
            to == de_option(f, "to")
            data == from_hex(f["data"].v)
            gas_limit == u256_parse(f["gasLimit"].v)
            max_fee == de_optional_u256(f, "maxFeePerGas")
            priority == de_optional_u256(f, "maxPriorityFeePerGas")
            gas_price == de_optional_u256(f, "gasPrice")
            value == de_optional_u256(f, "value")
        IN  IF ~from.is_ok THEN from
            ELSE IF IsSome(to) /\ ~from_hex(Unwrap(to)).is_ok
            THEN from_hex(Unwrap(to))
            ELSE IF ~data.is_ok THEN data
            ELSE IF ~gas_limit.is_ok THEN gas_limit
            ELSE IF ~max_fee.is_ok THEN max_fee
            ELSE IF ~priority.is_ok THEN priority
            ELSE IF ~gas_price.is_ok THEN gas_price
            ELSE IF ~value.is_ok THEN value
            ELSE Ok([tx_type |-> f["type"].v,
                     from |-> Unwrap(from.value),
                     to |-> IF IsSome(to) THEN from_hex(Unwrap(to)).value
                            ELSE None,
                     data |-> Unwrap(data.value),
                     nonce |-> f["nonce"].v,
                     chain_id |-> f["chainId"].v,
                     gas_limit |-> Unwrap(gas_limit.value),
                     max_fee_per_gas |-> Unwrap(max_fee.value),
                     max_priority_fee_per_gas |-> Unwrap(priority.value),
                     gas_price |-> Unwrap(gas_price.value),
                     value |-> Unwrap(value.value)])

\* Deserialize for Metadata and NetworkInfo
de_Metadata(j) ==
    LET f == j.v
        missing == first_missing(f, <<"network", "estimatedCost", "timestamp",
                                      "prepared", "signed">>)
    IN  IF IsSome(missing) THEN MissingField(Unwrap(missing))
        ELSE
        LET n == f["network"].v
            n_missing == first_missing(n, <<"name", "chainId">>)
        IN  IF IsSome(n_missing) THEN MissingField(Unwrap(n_missing))
            ELSE Ok([network |-> [name |-> n["name"].v,
                                  chain_id |-> n["chainId"].v,
                                  rpc_url |-> de_option(n, "rpcUrl")],
                     estimated_cost |-> f["estimatedCost"].v,
                     timestamp |-> f["timestamp"].v,
                     prepared |-> f["prepared"].v,
                     signed |-> f["signed"].v,
                     signed_at |-> de_option(f, "signedAt")])

\* serde_json::from_str::<TxParams>
from_str(j) ==
    LET f == j.v
        missing == first_missing(f, <<"mode", "transaction", "metadata">>)
    IN  IF IsSome(missing) THEN MissingField(Unwrap(missing))
        ELSE
        LET mode == mode_parse(f["mode"].v)
            transaction == de_TransactionData(f["transaction"])
            metadata == de_Metadata(f["metadata"])
        IN  IF ~mode.is_ok THEN mode
            ELSE IF ~transaction.is_ok THEN transaction
            ELSE IF ~metadata.is_ok THEN metadata
            ELSE Ok([mode |-> Unwrap(mode.value),
                     function_name |-> de_option(f, "functionName"),
                     params |-> de_option(f, "params"),
                     transaction |-> Unwrap(transaction.value),
                     metadata |-> Unwrap(metadata.value)])

(* ------------------------- commands/prepare.rs ------------------------- *)
\* the deployed CryptoHeir contract, an address that holds no code, and the
\* addresses given as arguments
HeirContract == address(9)
OtherAddress == address(8)
Beneficiary == address(7)
Token == address(6)
AddressZERO == address(0)

\* the time of the chain's latest block and the deadlines given, in seconds
Now == 5
Deadlines == {1, 9}
\* --amount, in ether: nothing, one wei, and a string that is no number
Amounts == {"0", "0.000000000000000001", "abc"}

\* the operations of the command line
Operations ==
    {[op |-> "Deploy", contract |-> None, args |-> None]} \cup
    {[op |-> "Deposit", contract |-> c,
      args |-> Some([beneficiary |-> Beneficiary, amount |-> a,
                     deadline |-> d, token |-> t])] :
        c \in {None, Some(HeirContract), Some(OtherAddress)},
        a \in Amounts, d \in Deadlines,
        t \in {None, Some(Token), Some(AddressZERO)}} \cup
    {[op |-> "Claim", contract |-> c, args |-> Some([id |-> Small])] :
        c \in {None, Some(HeirContract)}} \cup
    {[op |-> "Reclaim", contract |-> c, args |-> Some([id |-> Small])] :
        c \in {None, Some(HeirContract)}} \cup
    {[op |-> "ExtendDeadline", contract |-> c,
      args |-> Some([id |-> Small, new_deadline |-> 9])] :
        c \in {None, Some(HeirContract)}} \cup
    {[op |-> "TransferFeeCollector", contract |-> c,
      args |-> Some([new_collector |-> Beneficiary])] :
        c \in {None, Some(HeirContract)}} \cup
    {[op |-> "AcceptFeeCollector", contract |-> c, args |-> None] :
        c \in {None, Some(HeirContract)}}

\* the operations whose prepare function is a stub
StubOperations == {"Claim", "Reclaim", "ExtendDeadline",
                   "TransferFeeCollector", "AcceptFeeCollector"}

\* U256::from of a small unsigned integer
U256_from(n) == <<n, 0, 0, 0>>
\* U256 product and sum of values that stay within the lowest limb
u256_mul(a, b) == <<a[1] * b[1], 0, 0, 0>>
u256_add(a, b) == <<a[1] + b[1], 0, 0, 0>>

\* alloy parse_ether: the amount in wei, or an error for what is no number
parse_ether(amount) ==
    IF amount = "0" THEN Ok(ZERO)
    ELSE IF amount = "0.000000000000000001" THEN Ok(Small)
    ELSE Err("UnitsError")

\* contract::load_bytecode: the bytecode of the compiled artifact, or an
\* error when the artifact is missing, malformed or empty
Bytecode == [bytecode |-> "CryptoHeir"]
load_bytecode == {Ok(Bytecode), Err("Failed to read contract artifact")}

\* call.abi_encode(): selector and arguments
abi_encode(name, arguments) == [selector |-> name, arguments |-> arguments]

\* contract::encode_deposit: (calldata, value)
encode_deposit(beneficiary, amount, deadline, token) ==
    LET token_addr == IF IsSome(token) THEN Unwrap(token) ELSE AddressZERO
        deadline_u256 == U256_from(deadline)
        value == IF ~IsSome(token) THEN Some(amount) ELSE None
    IN  Ok(<<abi_encode("deposit",
                        <<token_addr, beneficiary, amount, deadline_u256>>),
             value>>)

\* the answer to an RPC call that failed
RpcFailure == Err("RpcError")

\* eth_estimateGas: the node runs the call; the CryptoHeir contract reverts
\* a deposit of nothing or with a deadline that is not in the future, an
\* address without code accepts any call
GasEstimates == {1, 10}
Reverts(to, data) ==
    /\ to = Some(HeirContract)
    /\ data.selector = "deposit"
    /\ \/ data.arguments[3] = ZERO
       \/ data.arguments[4][1] <= Now
eth_estimateGas(to, data) ==
    {RpcFailure} \cup
    (IF to # None /\ Reverts(to, data) THEN {Err("execution reverted")}
     ELSE {Ok(g) : g \in GasEstimates})

\* network::estimate_gas: the estimate with a buffer of 20%
\* (gas * 120 / 100 in unsigned integer arithmetic)
estimate_gas(answer) ==
    IF ~answer.is_ok THEN Err("RpcError: eth_estimateGas")
    ELSE LET gas == U256_from(Unwrap(answer.value)) IN
         Ok(<<(gas[1] * 120) \div 100, 0, 0, 0>>)

\* fee amounts are counted in units of 0.5 gwei: 1 gwei of default base
\* fee, 1.5 gwei of priority fee
WEI_PER_UNIT == 500000000
DEFAULT_BASE_FEE == 2
PRIORITY_FEE == 3
\* eth_feeHistory: a failure, a history without base fee, or the base fee
\* of the latest block
FeeHistories == {RpcFailure, Ok(None), Ok(Some(4))}
\* eth_gasPrice
GasPrices == {RpcFailure, Ok(5)}

\* a strategy that reports the gas price along with the fee-market fees
get_gas_prices_with_gas_price(fee_history, gas_price) ==
    IF fee_history.is_ok
    THEN LET latest_block_base_fee == Unwrap(fee_history.value)
             base_fee == U256_from(IF IsSome(latest_block_base_fee)
                                   THEN Unwrap(latest_block_base_fee)
                                   ELSE DEFAULT_BASE_FEE)
             max_priority_fee_per_gas == U256_from(PRIORITY_FEE)
             max_fee_per_gas == u256_add(u256_mul(base_fee, U256_from(2)),
                                         max_priority_fee_per_gas)
         IN  Ok(<<Some(max_fee_per_gas), Some(max_priority_fee_per_gas),
                  IF ~gas_price.is_ok THEN None
                  ELSE Some(U256_from(Unwrap(gas_price.value)))>>)
    ELSE IF ~gas_price.is_ok THEN Err("RpcError: eth_gasPrice")
    ELSE Ok(<<None, None, Some(U256_from(Unwrap(gas_price.value)))>>)

\* a strategy whose fee cap leaves no room for a rising base fee
get_gas_prices_base_plus_tip(fee_history, gas_price) ==
    IF fee_history.is_ok
    THEN LET latest_block_base_fee == Unwrap(fee_history.value)
             base_fee == U256_from(IF IsSome(latest_block_base_fee)
                                   THEN Unwrap(latest_block_base_fee)
                                   ELSE DEFAULT_BASE_FEE)
             max_priority_fee_per_gas == U256_from(PRIORITY_FEE)
             max_fee_per_gas == u256_add(base_fee, max_priority_fee_per_gas)
         IN  Ok(<<Some(max_fee_per_gas), Some(max_priority_fee_per_gas),
                  None>>)
    ELSE IF ~gas_price.is_ok THEN Err("RpcError: eth_gasPrice")
    ELSE Ok(<<None, None, Some(U256_from(Unwrap(gas_price.value)))>>)

\* a strategy for which a failed fee history is an error
get_gas_prices_no_fallback(fee_history, gas_price) ==
    IF fee_history.is_ok
    THEN LET latest_block_base_fee == Unwrap(fee_history.value)
             base_fee == U256_from(IF IsSome(latest_block_base_fee)
                                   THEN Unwrap(latest_block_base_fee)
                                   ELSE DEFAULT_BASE_FEE)
             max_priority_fee_per_gas == U256_from(PRIORITY_FEE)
             max_fee_per_gas == u256_add(u256_mul(base_fee, U256_from(2)),
                                         max_priority_fee_per_gas)
         IN  Ok(<<Some(max_fee_per_gas), Some(max_priority_fee_per_gas),
                  None>>)
    ELSE Err("RpcError: eth_feeHistory")

\* network::get_gas_prices: (max fee, max priority fee, gas price) from the
\* fee history, or from the gas price when the fee history fails
get_gas_prices(fee_history, gas_price) ==
    IF fee_history.is_ok
    THEN LET latest_block_base_fee == Unwrap(fee_history.value)
             base_fee == U256_from(IF IsSome(latest_block_base_fee)
                                   THEN Unwrap(latest_block_base_fee)
                                   ELSE DEFAULT_BASE_FEE)
             max_priority_fee_per_gas == U256_from(PRIORITY_FEE)
             max_fee_per_gas == u256_add(u256_mul(base_fee, U256_from(2)),
                                         max_priority_fee_per_gas)
         IN  Ok(<<Some(max_fee_per_gas), Some(max_priority_fee_per_gas),
                  None>>)
    ELSE IF ~gas_price.is_ok THEN Err("RpcError: eth_gasPrice")
    ELSE Ok(<<None, None, Some(U256_from(Unwrap(gas_price.value)))>>)

\* prepare_deploy, prepare_deposit: (type, max fee, priority fee, gas
\* price) of the body
select_fee_family(prices) ==
    IF IsSome(prices[1]) THEN <<2, prices[1], prices[2], None>>
    ELSE <<0, None, None, prices[3]>>

\* network::format_eth: the amount in ether with six decimals
format_eth(wei) == <<"ETH", wei>>

\* prepare_deploy, prepare_deposit: the estimated cost
estimated_cost(mode, gas_limit, fees, value) ==
    LET gas_cost == IF IsSome(fees[2]) THEN Some(u256_mul(gas_limit, Unwrap(fees[2])))
                    ELSE IF IsSome(fees[4]) THEN Some(u256_mul(gas_limit, Unwrap(fees[4])))
                    ELSE None
    IN  IF mode = "Deploy"
        THEN IF IsSome(gas_cost) THEN format_eth(Unwrap(gas_cost)) ELSE "unknown"
        ELSE format_eth(u256_add(IF IsSome(gas_cost) THEN Unwrap(gas_cost) ELSE ZERO,
                                 IF IsSome(value) THEN Unwrap(value) ELSE ZERO))

\* execute: network.unwrap_or_else(|| "custom")
network_name(network) == IF IsSome(network) THEN Unwrap(network) ELSE "custom"

\* metadata that leaves the prepared flag unset
new_metadata_unprepared(name, chain, cost, timestamp) ==
    [network |-> [name |-> name, chain_id |-> chain, rpc_url |-> None],
     estimated_cost |-> cost,
     timestamp |-> timestamp,
     prepared |-> FALSE,
     signed |-> FALSE,
     signed_at |-> None]

\* prepare_deploy, prepare_deposit: the metadata of a new descriptor
new_metadata(name, chain, cost, timestamp) ==
    [network |-> [name |-> name, chain_id |-> chain, rpc_url |-> None],
     estimated_cost |-> cost,
     timestamp |-> timestamp,
     prepared |-> TRUE,
     signed |-> FALSE,
     signed_at |-> None]

\* prepare_deploy, prepare_deposit: the TxParams returned, from the
\* operation and the local bindings l
build_tx_params(op, l, timestamp) ==
    LET mode == IF op.op = "Deploy" THEN "Deploy" ELSE "Call"
        fees == select_fee_family(Unwrap(l.gas_prices))
        gas_limit == Unwrap(l.gas_limit)
    IN  [mode |-> mode,
         function_name |-> IF op.op = "Deploy" THEN None ELSE Some("deposit"),
         params |-> IF op.op = "Deploy" THEN None ELSE Some(Unwrap(op.args)),
         transaction |->
            [tx_type |-> fees[1],
             from |-> Unwrap(l.signer_address),
             to |-> IF op.op = "Deploy" THEN None ELSE l.contract,
             data |-> Unwrap(l.data),
             nonce |-> Unwrap(l.nonce),
             chain_id |-> Unwrap(l.chain_id),
             gas_limit |-> gas_limit,
             max_fee_per_gas |-> fees[2],
             max_priority_fee_per_gas |-> fees[3],
             gas_price |-> fees[4],
             value |-> IF op.op = "Deploy" THEN None ELSE l.value],
         metadata |-> new_metadata(network_name(l.network), Unwrap(l.chain_id),
                                   estimated_cost(mode, gas_limit, fees, l.value),
                                   timestamp)]

\* network::get_chain_id: Ok(client.get_chain_id().await?)
get_chain_id(answer) ==
    IF answer.is_ok THEN answer ELSE Err("RpcError: eth_chainId")

\* a nonce that falls back to zero when the node does not answer
get_nonce_or_zero(answer) ==
    IF answer.is_ok THEN answer ELSE Ok(0)

\* network::get_nonce: Ok(client.get_transaction_count(address).await?)
get_nonce(answer) ==
    IF answer.is_ok THEN answer ELSE Err("RpcError: eth_getTransactionCount")

\* the bindings of execute before its first statement
NoLocals ==
    [network |-> None, signer_address |-> None, config_contract |-> None,
     contract |-> None, chain_id |-> None, nonce |-> None, data |-> None,
     value |-> None, gas_u64 |-> None, gas_limit |-> None,
     gas_prices |-> None, base_fee |-> None, rpc_failed |-> {}]

\* the names of the RPC calls among calls that failed
failed(call, answer) == IF answer.is_ok THEN {} ELSE rpc_calls(call)

\* the prepare invocation ends
PrepEnd(o) ==
    /\ prep_pc' = "done"
    /\ prep_outcome' = o

\* execute: Config::load, the RPC URL, the signer address and the client
prepare_config ==
    /\ prep_pc = "config"
    /\ private_key' \in EnvPrivateKeys
    /\ rpc_log' = rpc_log \cup rpc_calls("Config::load")
    /\ \E rpc_url \in {"none", "invalid", "ok"},
          network \in {None, Some("sepolia")},
          signer \in {None, Some(address(PrivateKey))},
          contract \in {None, Some(HeirContract)} :
          IF rpc_url = "none"
          THEN PrepEnd("No RPC URL provided or configured")
               /\ UNCHANGED prep_local
          ELSE IF ~IsSome(signer)
          THEN PrepEnd("SIGNER_ADDRESS not set in environment")
               /\ UNCHANGED prep_local
          ELSE IF rpc_url = "invalid"
          THEN PrepEnd("InvalidUrl") /\ UNCHANGED prep_local
          ELSE /\ prep_local' = [prep_local EXCEPT !.network = network,
                                                   !.signer_address = signer,
                                                   !.config_contract = contract]
               /\ prep_pc' = "get_chain_id"
               /\ UNCHANGED prep_outcome
    /\ UNCHANGED <<operation, prep_tx_params, tx_params_file>>
    /\ UNCHANGED <<broadcast_vars, sign_vars>>

\* execute: network::get_chain_id
prepare_get_chain_id ==
    /\ prep_pc = "get_chain_id"
    /\ rpc_log' = rpc_log \cup rpc_calls("network::get_chain_id")
    /\ \E answer \in {RpcFailure, Ok(net_chain_id)} :
          LET res == get_chain_id(answer) IN
          IF res.is_ok
          THEN /\ prep_local' =
                    [prep_local EXCEPT
                        !.chain_id = res.value,
                        !.rpc_failed = @ \cup failed("network::get_chain_id", answer)]
               /\ prep_pc' = "get_nonce"
               /\ UNCHANGED prep_outcome
          ELSE /\ prep_local' =
                    [prep_local EXCEPT
                        !.rpc_failed = @ \cup failed("network::get_chain_id", answer)]
               /\ PrepEnd(res.err)
    /\ UNCHANGED <<operation, prep_tx_params, tx_params_file, private_key>>
    /\ UNCHANGED <<broadcast_vars, sign_vars>>

\* execute: network::get_nonce
prepare_get_nonce ==
    /\ prep_pc = "get_nonce"
    /\ rpc_log' = rpc_log \cup rpc_calls("network::get_nonce")
    /\ \E answer \in {RpcFailure} \cup {Ok(n) : n \in Nonces} :
          LET res == get_nonce(answer) IN
          IF res.is_ok
          THEN /\ prep_local' =
                    [prep_local EXCEPT
                        !.nonce = res.value,
                        !.rpc_failed = @ \cup failed("network::get_nonce", answer)]
               /\ prep_pc' = "operation"
               /\ UNCHANGED prep_outcome
          ELSE /\ prep_local' =
                    [prep_local EXCEPT
                        !.rpc_failed = @ \cup failed("network::get_nonce", answer)]
               /\ PrepEnd(res.err)
    /\ UNCHANGED <<operation, prep_tx_params, tx_params_file, private_key>>
    /\ UNCHANGED <<broadcast_vars, sign_vars>>

\* execute: the match on the operation, up to the gas estimate of the
\* prepare function called; the prepare functions of the operations other
\* than Deploy and Deposit are todo!()
prepare_operation ==
    /\ prep_pc = "operation"
    /\ IF operation.op = "Deploy"
       THEN \E bytecode \in load_bytecode :
               IF bytecode.is_ok
               THEN /\ prep_local' = [prep_local EXCEPT !.data = bytecode.value]
                    /\ prep_pc' = "estimate_gas"
                    /\ UNCHANGED prep_outcome
               ELSE PrepEnd(bytecode.err) /\ UNCHANGED prep_local
       ELSE LET contract_addr == IF IsSome(operation.contract)
                                 THEN operation.contract
                                 ELSE prep_local.config_contract
            IN  IF ~IsSome(contract_addr)
                THEN PrepEnd("Contract address required")
                     /\ UNCHANGED prep_local
                ELSE IF operation.op \in StubOperations
                THEN PrepEnd("Panic") /\ UNCHANGED prep_local
                ELSE LET a == Unwrap(operation.args)
                         amount_wei == parse_ether(a.amount)
                     IN  IF ~amount_wei.is_ok
                         THEN PrepEnd(amount_wei.err) /\ UNCHANGED prep_local
                         ELSE LET encoded ==
                                     Unwrap(encode_deposit(
                                         a.beneficiary,
                                         Unwrap(amount_wei.value),
                                         a.deadline, a.token).value)
                              IN  /\ prep_local' =
                                       [prep_local EXCEPT
                                           !.contract = contract_addr,
                                           !.data = Some(encoded[1]),
                                           !.value = encoded[2]]
                                  /\ prep_pc' = "estimate_gas"
                                  /\ UNCHANGED prep_outcome
    /\ UNCHANGED <<operation, prep_tx_params, tx_params_file, private_key,
                   rpc_log>>
    /\ UNCHANGED <<broadcast_vars, sign_vars>>

\* prepare_deploy, prepare_deposit: network::estimate_gas
prepare_estimate_gas ==
    /\ prep_pc = "estimate_gas"
    /\ rpc_log' = rpc_log \cup rpc_calls("network::estimate_gas")
    /\ \E answer \in eth_estimateGas(prep_local.contract,
                                     Unwrap(prep_local.data)) :
          LET res == estimate_gas(answer) IN
          IF res.is_ok
          THEN /\ prep_local' =
                    [prep_local EXCEPT
                        !.gas_u64 = answer.value,
                        !.gas_limit = res.value,
                        !.rpc_failed = @ \cup failed("network::estimate_gas", answer)]
               /\ prep_pc' = "get_gas_prices"
               /\ UNCHANGED prep_outcome
          ELSE /\ prep_local' =
                    [prep_local EXCEPT
                        !.rpc_failed = @ \cup failed("network::estimate_gas", answer)]
               /\ PrepEnd(res.err)
    /\ UNCHANGED <<operation, prep_tx_params, tx_params_file, private_key>>
    /\ UNCHANGED <<broadcast_vars, sign_vars>>

\* prepare_deploy, prepare_deposit: network::get_gas_prices, which asks for
\* the gas price only when the fee history fails
prepare_get_gas_prices ==
    /\ prep_pc = "get_gas_prices"
    /\ \E fee_history \in FeeHistories, gas_price \in GasPrices :
          LET res == get_gas_prices(fee_history, gas_price)
              failures == failed("network::get_fee_history", fee_history) \cup
                          (IF fee_history.is_ok THEN {}
                           ELSE failed("network::get_gas_price", gas_price))
          IN
          /\ rpc_log' = rpc_log \cup rpc_calls("network::get_fee_history") \cup
                (IF fee_history.is_ok THEN {}
                 ELSE rpc_calls("network::get_gas_price"))
          /\ IF res.is_ok
             THEN /\ prep_local' =
                       [prep_local EXCEPT
                           !.gas_prices = res.value,
                           !.base_fee = IF fee_history.is_ok
                                        THEN Unwrap(fee_history.value)
                                        ELSE None,
                           !.rpc_failed = @ \cup failures]
                  /\ prep_pc' = "write"
                  /\ UNCHANGED prep_outcome
             ELSE /\ prep_local' =
                       [prep_local EXCEPT !.rpc_failed = @ \cup failures]
                  /\ PrepEnd(res.err)
    /\ UNCHANGED <<operation, prep_tx_params, tx_params_file, private_key>>
    /\ UNCHANGED <<broadcast_vars, sign_vars>>

\* prepare_deploy, prepare_deposit: the TxParams; execute: its
\* serialization, the write of the file and the optional QR code
prepare_write ==
    /\ prep_pc = "write"
    /\ \E timestamp \in Times :
          LET built == build_tx_params(operation, prep_local, timestamp) IN
          /\ prep_tx_params' = Some(built)
          /\ \/ \* std::fs::write fails
                /\ PrepEnd("IoError")
                /\ UNCHANGED tx_params_file
             \/ /\ tx_params_file' = Some(to_string_pretty(built))
                /\ \/ PrepEnd("Prepared")
                   \/ \* --qr and qr::display_qr fails
                      PrepEnd("QrError")
    /\ UNCHANGED <<operation, prep_local, private_key, rpc_log>>
    /\ UNCHANGED <<broadcast_vars, sign_vars>>

PrepareInit ==
    /\ NoBroadcast
    /\ net_chain_id \in ChainIds
    /\ SignIdle
    /\ rpc_log = {}
    /\ operation \in Operations
    /\ prep_pc = "config"
    /\ prep_outcome = "running"
    /\ prep_local = NoLocals
    /\ prep_tx_params = None
    /\ tx_params_file = None

PrepareNext ==
    \/ prepare_config
    \/ prepare_get_chain_id
    \/ prepare_get_nonce
    \/ prepare_operation
    \/ prepare_estimate_gas
    \/ prepare_get_gas_prices
    \/ prepare_write

PrepareSpec == PrepareInit /\ [][PrepareNext]_vars

(* ------------------------------ claims --------------------------------- *)
Done == pc = "done"
Raw == signed_tx.signed_transaction
MinedRaws == {m.raw : m \in net_mined}
LookupFound == IsSome(existing_tx) /\ Unwrap(existing_tx).is_ok
LookupRpcFailed == IsSome(existing_tx) /\ Unwrap(existing_tx) = Err("RpcError")

\* C1: when the chain id the network reports differs from the chain id in
\* the signed transaction's metadata, the invocation has ended with the
\* chain id error and has made no lookup, submission, poll or receipt write.
C1_ChainIdMismatchAborts ==
    (IsSome(chain_id) /\ Unwrap(chain_id) # signed_tx.metadata.network.chain_id)
        => /\ Done
           /\ outcome = "ChainIdMismatch"
           /\ lookups = 0 /\ submits = 0 /\ polls = 0 /\ writes = 0
           /\ hashes = {} /\ sent_hash = None /\ receipt = None

C1_Witness ==
    /\ IsSome(chain_id)
    /\ Unwrap(chain_id) # signed_tx.metadata.network.chain_id
    /\ Done /\ outcome = "ChainIdMismatch"

\* C2 (as claimed): for a SignedTransaction produced by the Signer, when the
\* first run submitted it, the network mined it and no RPC call failed, the
\* second run ends with the same Receipt as the first and submits nothing.
C2_BroadcastIdempotent ==
    ( /\ signed_tx \in SignerOutputs
      /\ run = 2 /\ Done
      /\ IsSome(prev)
      /\ IsSome(Unwrap(prev).sent_hash)
      /\ Unwrap(prev).outcome # "RpcError"
      /\ Unwrap(prev).existing_tx # Some(Err("RpcError"))
      /\ ~LookupRpcFailed
      /\ outcome # "RpcError"
      /\ Raw \in MinedRaws )
        => /\ outcome = "Confirmed"
           /\ Unwrap(prev).outcome = "Confirmed"
           /\ receipt = Unwrap(prev).receipt
           /\ submits = 0

\* C3: when the lookup by content hash found the transaction, the invocation
\* submits nothing and is in receipt polling for that same hash.
C3_FoundSkipsSubmission ==
    LookupFound
        => /\ submits = 0
           /\ sent_hash = None
           /\ pc \in {"wait_for_receipt", "sleep", "done"}
           /\ (Done => polls >= 1)
           /\ hashes = {signed_tx.tx_hash}
           /\ Keccak256(Unwrap(Unwrap(existing_tx).value)) = signed_tx.tx_hash

C3_Witness ==
    /\ LookupFound
    /\ polls >= 1
    /\ submits = 0

\* C4 (as claimed): the hash the network returns for a submission equals the
\* precomputed content hash, or else the invocation has ended with an error
\* without polling for a receipt.
C4_ReturnedHashChecked ==
    IsSome(sent_hash)
        => \/ Unwrap(sent_hash) = signed_tx.tx_hash
           \/ (Done /\ outcome \notin {"Confirmed", "Timeout"} /\ polls = 0)

\* C5: wait_for_receipt makes at most MAX_ATTEMPTS lookups; it reports
\* Timeout exactly after MAX_ATTEMPTS lookups that all found no receipt, with
\* a sleep between consecutive lookups and none after the last; and it always
\* comes to an end.
C5_Bounded ==
    /\ polls <= MAX_ATTEMPTS
    /\ attempts <= polls
    /\ sleeps <= attempts
    /\ (pc = "sleep" => sleeps = polls - 1 /\ attempts = polls)
    /\ (pc = "wait_for_receipt" => sleeps = polls /\ attempts = polls)
    /\ (outcome = "Timeout"
          => Done /\ polls = MAX_ATTEMPTS /\ attempts = MAX_ATTEMPTS
                  /\ sleeps = MAX_ATTEMPTS - 1)
    /\ (Done /\ polls > 0 /\ attempts = polls
          => outcome = "Timeout" /\ polls = MAX_ATTEMPTS)

C5_WaitForReceiptTerminates ==
    /\ []C5_Bounded
    /\ (pc = "wait_for_receipt") ~> Done

C5_Witness ==
    /\ Done /\ outcome = "Timeout"
    /\ polls = MAX_ATTEMPTS
    /\ sleeps = MAX_ATTEMPTS - 1

\* C6 (as claimed): a receipt that lacks its block number or block hash
\* counts as no receipt yet; no invocation ends because of it.
C6_IncompleteReceiptKeepsPolling ==
    outcome \notin {"No block number", "No block hash"}

\* C7 (as claimed): a failed receipt lookup inside the polling loop does not
\* end the invocation; an RPC error ends it only before polling started.
C7_PollRpcFailureRetried ==
    (Done /\ outcome = "RpcError") => polls = 0

\* C8 (as claimed): when the RPC call of the idempotency lookup fails, the
\* invocation has ended with that error, without a submission or a write.
C8_LookupFailureIsFatal ==
    LookupRpcFailed
        => /\ Done
           /\ outcome = "RpcError"
           /\ submits = 0
           /\ writes = 0

\* C9 (as claimed): once the transaction was submitted or found on the
\* network, the invocation ends in Confirmed or in TimedOut, nothing else.
C9_SubmittedEndsConfirmedOrTimedOut ==
    (Done /\ (IsSome(sent_hash) \/ LookupFound))
        => outcome \in {"Confirmed", "Timeout"}

\* C10: a receipt file is written only by an invocation that ends Confirmed,
\* once, after a poll returned the receipt of a mined transaction; the file
\* holds that receipt with every mandatory field set. Invocations ending in
\* any error write nothing.
ReceiptOfMined(r) ==
    \E m \in net_mined :
        r = [transaction_hash |-> Keccak256(m.raw),
             block_number |-> m.block_number,
             block_hash |-> format_hash(m.block_hash),
             from |-> recover_signer(m.raw),
             status |-> IF m.status THEN 1 ELSE 0]

C10_ReceiptOnlyFromTerminalPoll ==
    /\ (outcome # "Confirmed" => writes = 0 /\ receipt = None)
    /\ (writes > 0 => /\ writes = 1 /\ Done /\ outcome = "Confirmed"
                      /\ polls >= 1
                      /\ output_file = receipt)
    /\ (IsSome(output_file) => ReceiptOfMined(Unwrap(output_file)))
    /\ (run = 1 /\ outcome # "Confirmed" => output_file = None)

C10_Witness ==
    /\ Done /\ outcome = "Confirmed" /\ writes = 1
    /\ IsSome(output_file)

(* --------------------------- claims: sign ------------------------------ *)
SignDone == sign_pc = "done"
Body == tx_params.transaction
\* the validation let the descriptor through to the review
PassedValidation == sign_pc \in {"review", "load_key", "sign"} \/ review # "none"
\* the invocation ended in the validation
RejectedByValidator ==
    /\ SignDone
    /\ review = "none" /\ private_key = None /\ signed_file = None
\* crypto::sign_transaction was called
SignerCalled == SignDone /\ IsSome(private_key)
Signed == IsSome(signed_file)
SignedTxOut == Unwrap(signed_file)

HasFeeMarket(tx) == IsSome(tx.max_fee_per_gas) /\ IsSome(tx.max_priority_fee_per_gas)
HasLegacy(tx) == IsSome(tx.gas_price)
NoFeeMarket(tx) == ~IsSome(tx.max_fee_per_gas) /\ ~IsSome(tx.max_priority_fee_per_gas)

\* C11: a descriptor with prepared = false is rejected by the first check,
\* with the not-prepared error whatever its type and fees; no review is
\* shown, no key is loaded, nothing is written.
C11_UnpreparedRejectedFirst ==
    ~tx_params.metadata.prepared
        => \/ sign_pc = "validate"
           \/ /\ RejectedByValidator
              /\ sign_outcome = "Transaction has not been prepared"
              /\ warnings = {}

C11_Witness ==
    /\ ~tx_params.metadata.prepared
    /\ Body.tx_type = 1
    /\ NoFeeMarket(Body) /\ ~HasLegacy(Body)
    /\ SignDone
    /\ sign_outcome = "Transaction has not been prepared"

\* C12: a type-2 descriptor lacking maxFeePerGas or maxPriorityFeePerGas, a
\* type-0 descriptor lacking gasPrice and a descriptor of any other type are
\* rejected by the validation: nothing is signed or written, and (the
\* descriptor being prepared) the error names the missing field or the type.
FeeError(tx) ==
    IF tx.tx_type = 2
    THEN IF ~IsSome(tx.max_fee_per_gas)
         THEN "EIP-1559 transaction (type 2) requires maxFeePerGas but it is missing"
         ELSE "EIP-1559 transaction (type 2) requires maxPriorityFeePerGas but it is missing"
    ELSE IF tx.tx_type = 0
    THEN "Legacy transaction (type 0) requires gasPrice but it is missing"
    ELSE "Unsupported transaction type"

LacksRequiredFee(tx) ==
    \/ tx.tx_type = 2 /\ ~HasFeeMarket(tx)
    \/ tx.tx_type = 0 /\ ~HasLegacy(tx)
    \/ tx.tx_type \notin {0, 2}

C12_MissingFeeFieldRejected ==
    LacksRequiredFee(Body)
        => \/ sign_pc = "validate"
           \/ /\ RejectedByValidator
              /\ (tx_params.metadata.prepared => sign_outcome = FeeError(Body))

C12_Witness ==
    /\ tx_params.metadata.prepared
    /\ Body.tx_type = 2
    /\ NoFeeMarket(Body) /\ HasLegacy(Body)
    /\ RejectedByValidator
    /\ sign_outcome = "EIP-1559 transaction (type 2) requires maxFeePerGas but it is missing"

\* C13 (as claimed): every descriptor that passes the validation has exactly
\* one fee family populated, the one its type selects.
C13_ExactlyOneFeeFamily ==
    PassedValidation
        => \/ Body.tx_type = 2 /\ HasFeeMarket(Body) /\ ~HasLegacy(Body)
           \/ Body.tx_type = 0 /\ HasLegacy(Body) /\ NoFeeMarket(Body)

\* C13 (amended): every descriptor that passes the validation has the fee
\* family its type selects populated; fields of the other family may be
\* present as well.
C13_SelectedFeeFamilyPresent ==
    PassedValidation
        => \/ Body.tx_type = 2 /\ HasFeeMarket(Body)
           \/ Body.tx_type = 0 /\ HasLegacy(Body)

C13_Witness ==
    /\ SignerCalled
    /\ HasFeeMarket(Body) /\ HasLegacy(Body)

\* C14: a prepared descriptor that has the fee family of its type and fields
\* of the other family as well passes the validation with a warning, and its
\* signed payload and content hash are those of the same descriptor without
\* the extra fields.
HasExtraFees(tx) ==
    \/ tx.tx_type = 2 /\ HasFeeMarket(tx) /\ HasLegacy(tx)
    \/ tx.tx_type = 0 /\ HasLegacy(tx) /\ ~NoFeeMarket(tx)

WithoutExtraFees(tp) ==
    IF tp.transaction.tx_type = 2
    THEN [tp EXCEPT !.transaction.gas_price = None]
    ELSE [tp EXCEPT !.transaction.max_fee_per_gas = None,
                    !.transaction.max_priority_fee_per_gas = None]

C14_ExtraFeeFamilyIgnored ==
    (tx_params.metadata.prepared /\ HasExtraFees(Body))
        => /\ sign_pc # "validate" => PassedValidation
           /\ PassedValidation =>
                 \E w \in warnings : w \in {"gasPrice will be ignored",
                                            "EIP-1559 fee fields will be ignored"}
           /\ Signed =>
                 \A now \in Times :
                    LET plain == sign_transaction(WithoutExtraFees(tx_params),
                                                  Unwrap(private_key), now)
                    IN  /\ plain.is_ok
                        /\ Unwrap(plain.value).signed_transaction =
                              SignedTxOut.signed_transaction
                        /\ Unwrap(plain.value).tx_hash = SignedTxOut.tx_hash

C14_Witness ==
    /\ tx_params.metadata.prepared /\ HasExtraFees(Body)
    /\ Body.tx_type = 2
    /\ Body.gas_price # Body.max_fee_per_gas
    /\ Signed /\ sign_outcome = "Signed"

\* C15: when the address of the private key differs from the descriptor's
\* from, sign_transaction returns the mismatch error and nothing is signed;
\* the sender recovered from a signed encoding equals the from of the
\* signed transaction and of the descriptor.
C15_SignerIsFrom ==
    /\ (SignerCalled /\ Unwrap(private_key) # 0
           /\ address(Unwrap(private_key)) # Body.from)
          => /\ ~Signed
             /\ sign_outcome = "Private key address does not match transaction from address"
    /\ Signed
          => /\ recover_signer(SignedTxOut.signed_transaction) = SignedTxOut.from
             /\ SignedTxOut.from = Body.from

C15_Witness ==
    /\ SignerCalled
    /\ private_key = Some(2)
    /\ sign_outcome = "Private key address does not match transaction from address"

\* C16: the metadata of a signed transaction is the descriptor's metadata
\* with signed = true and signedAt set; network, estimatedCost, timestamp
\* and prepared are carried through, prepared is true, and the descriptor is
\* never modified.
C16_MetadataCarried ==
    Signed
        => LET m == SignedTxOut.metadata
               d == tx_params.metadata
           IN  /\ m.signed = TRUE
               /\ \E now \in Times : m.signed_at = Some(now)
               /\ m.network = d.network
               /\ m.estimated_cost = d.estimated_cost
               /\ m.timestamp = d.timestamp
               /\ m.prepared = d.prepared
               /\ m.prepared = TRUE
               /\ DOMAIN m = DOMAIN d

C16_SigningChangesTwoFields ==
    /\ []C16_MetadataCarried
    /\ [][tx_params' = tx_params]_vars

C16_Witness ==
    /\ Signed
    /\ tx_params.metadata.signed
    /\ SignedTxOut.metadata.signed_at # tx_params.metadata.signed_at
    /\ SignedTxOut.metadata.timestamp # "t1"

\* C17: a signed transaction carries a predicted contract address exactly
\* when the descriptor's mode is Deploy, it is the address derived from the
\* body's from and nonce, and the mode is the descriptor's.
C17_PredictedAddressIffDeploy ==
    Signed
        => /\ IsSome(SignedTxOut.predicted_contract_address)
                 <=> tx_params.mode = "Deploy"
           /\ IsSome(SignedTxOut.predicted_contract_address)
                 => SignedTxOut.predicted_contract_address =
                       Some(create(Body.from, Body.nonce))
           /\ SignedTxOut.mode = tx_params.mode

C17_Witness ==
    /\ Signed
    /\ tx_params.mode = "Call"
    /\ Body.nonce = 1
    /\ SignedTxOut.predicted_contract_address = None

\* C18: signing any descriptor with the same body (the fee family not
\* selected by the type left aside) and the same key gives the content hash
\* of the signed transaction, whatever its metadata, operation name,
\* parameters and signing time.
SameBody(tp) ==
    {[tp EXCEPT !.function_name = l.function_name,
                !.params = l.params,
                !.metadata = Metadata(l, c, p, s),
                !.transaction = t] :
        l \in Labels, c \in ChainIds, p \in BOOLEAN, s \in BOOLEAN,
        t \in IF tp.transaction.tx_type = 2
              THEN {[tp.transaction EXCEPT !.gas_price = g] :
                       g \in {None, Some(Small), Some(Pow128)}}
              ELSE {[tp.transaction EXCEPT !.max_fee_per_gas = f,
                                           !.max_priority_fee_per_gas = q] :
                       f \in {None, Some(Small), Some(Pow128)},
                       q \in {None, Some(Small)}}}

C18_ContentHashReproducible ==
    Signed
        => \A other \in SameBody(tx_params), now \in Times :
              LET again == sign_transaction(other, Unwrap(private_key), now)
              IN  /\ again.is_ok
                  /\ Unwrap(again.value).tx_hash = SignedTxOut.tx_hash

C18_Witness ==
    /\ Signed
    /\ Body.tx_type = 0
    /\ Cardinality(SameBody(tx_params)) > 1

\* C19: the txHash of a signed transaction is the hash of the unsigned
\* payload, the hash the signature was made over, and not the hash of the
\* signed encoding.
C19_TxHashIsSignatureHash ==
    Signed
        => LET raw == SignedTxOut.signed_transaction IN
           /\ SignedTxOut.tx_hash =
                 Keccak256([payload |-> raw.payload, signature |-> None])
           /\ Unwrap(raw.signature).over = SignedTxOut.tx_hash
           /\ SignedTxOut.tx_hash # Keccak256(raw)

C19_Witness ==
    /\ Signed
    /\ Body.tx_type = 0
    /\ SignedTxOut.tx_hash # Keccak256(SignedTxOut.signed_transaction)

\* C20 (as claimed): sign_transaction returns a SignedTransaction or an
\* Error for every validated descriptor and key; the invocation never
\* aborts.
C20_SignTransactionTotal ==
    sign_outcome # "Panic"

\* C21: the sign invocation invokes no RPC capability, whatever its path:
\* from the loaded descriptor to its end nothing is asked of or sent to the
\* network.
C21_SignPhaseOffline ==
    /\ rpc_log = {}
    /\ lookups = 0 /\ submits = 0 /\ polls = 0
    /\ hashes = {}
    /\ net_pool = {} /\ net_mined = {}

C21_Witness ==
    /\ SignDone /\ sign_outcome = "Signed"
    /\ Signed
    /\ rpc_log = {}

\* C22 (as claimed): in the prepare and broadcast invocations, which call
\* the network, the private key is never read into the process state.
C22_KeyNeverInNetworkedPhase ==
    (prep_pc # "idle" \/ pc # "idle") => private_key = None

\* C23: when the review returns Reject, the invocation has ended with
\* Ok(()), no private key was loaded, nothing was signed and no file was
\* written.
C23_RejectCancelsCleanly ==
    review = "rejected"
        => /\ SignDone
           /\ sign_outcome = "Cancelled"
           /\ ReturnsOk(sign_outcome)
           /\ private_key = None
           /\ ~Signed

C23_Witness ==
    /\ review = "rejected"
    /\ SignDone
    /\ tx_params.metadata.prepared

\* C24: the descriptor is validated before it is reviewed, the review
\* precedes the loading of the key, the key is loaded before the signing; a
\* signed file is written only after a passed validation and an approved or
\* skipped review, and it holds the signature of the descriptor that was
\* validated and reviewed.
Validated == tx_params.metadata.prepared /\ ~LacksRequiredFee(Body)
ReviewPassed == review \in {"approved", "skipped"}

C24_Ordered ==
    /\ sign_pc \in {"validate", "review"}
          => review = "none" /\ private_key = None /\ ~Signed
    /\ PassedValidation => Validated
    /\ sign_pc = "load_key" => ReviewPassed /\ private_key = None /\ ~Signed
    /\ sign_pc = "sign" => ReviewPassed /\ IsSome(private_key) /\ ~Signed
    /\ IsSome(private_key) => Validated /\ ReviewPassed
    /\ Signed
          => /\ Validated /\ ReviewPassed /\ IsSome(private_key)
             /\ \E now \in Times :
                   signed_file =
                       sign_transaction(tx_params, Unwrap(private_key), now).value

C24_SignPhaseOrdering ==
    /\ []C24_Ordered
    /\ [][/\ tx_params' = tx_params
          /\ warnings' # warnings => sign_pc = "validate"
          /\ review' # review => sign_pc = "review"
          /\ private_key' # private_key => sign_pc = "load_key"
          /\ signed_file' # signed_file => sign_pc = "sign"]_vars

C24_Witness ==
    /\ Signed
    /\ review = "skipped"
    /\ warnings # {}

(* -------------------------- claims: prepare ---------------------------- *)
PrepDone == prep_pc = "done"
Written == IsSome(tx_params_file)
Descriptor == Unwrap(prep_tx_params)
\* get_gas_prices returned the fees of exactly one family
OneFamily(prices) ==
    \/ IsSome(prices[1]) /\ IsSome(prices[2]) /\ ~IsSome(prices[3])
    \/ ~IsSome(prices[1]) /\ ~IsSome(prices[2]) /\ IsSome(prices[3])

\* C25: get_gas_prices returns the two fee-market fees without a gas price,
\* or a gas price without fee-market fees; every descriptor the Composer
\* builds has type 2 with exactly the fee-market fields or type 0 with
\* exactly gasPrice.
C25_OneFeeFamilyComposed ==
    /\ IsSome(prep_local.gas_prices) => OneFamily(Unwrap(prep_local.gas_prices))
    /\ IsSome(prep_tx_params)
          => LET t == Descriptor.transaction IN
             \/ t.tx_type = 2 /\ HasFeeMarket(t) /\ ~HasLegacy(t)
             \/ t.tx_type = 0 /\ HasLegacy(t) /\ NoFeeMarket(t)

C25_Witness ==
    /\ Written
    /\ Descriptor.transaction.tx_type = 0
    /\ "eth_gasPrice" \in rpc_log

\* C26 (as claimed): deserializing the descriptor file that compose wrote
\* succeeds and gives back the descriptor, so that sign can load it.
C26_DescriptorRoundTrip ==
    Written => from_str(Unwrap(tx_params_file)) = Ok(Descriptor)

\* C27: compose ends with an error and writes nothing when the chain id, the
\* nonce, the gas estimate or the fee data cannot be obtained; a descriptor
\* file exists only after all four were obtained, and it carries the chain
\* id and the nonce that the network gave.
Obtained ==
    /\ IsSome(prep_local.chain_id) /\ IsSome(prep_local.nonce)
    /\ IsSome(prep_local.gas_limit) /\ IsSome(prep_local.gas_prices)
    /\ {"eth_chainId", "eth_getTransactionCount", "eth_estimateGas",
        "eth_feeHistory"} \subseteq rpc_log
    /\ prep_local.rpc_failed \subseteq {"eth_feeHistory"}
    /\ "eth_feeHistory" \in prep_local.rpc_failed => "eth_gasPrice" \in rpc_log

C27_NetworkFactsRequired ==
    /\ prep_local.rpc_failed \ {"eth_feeHistory"} # {}
          => /\ PrepDone
             /\ prep_outcome \in {"RpcError: eth_chainId",
                                  "RpcError: eth_getTransactionCount",
                                  "RpcError: eth_estimateGas",
                                  "RpcError: eth_gasPrice"}
             /\ prep_tx_params = None
             /\ ~Written
    /\ IsSome(prep_tx_params) => Obtained
    /\ Written
          => /\ Obtained
             /\ Descriptor.transaction.chain_id = net_chain_id
             /\ Descriptor.metadata.network.chain_id = net_chain_id
             /\ Some(Descriptor.transaction.nonce) = prep_local.nonce

C27_Witness ==
    /\ PrepDone
    /\ prep_outcome = "RpcError: eth_getTransactionCount"
    /\ "eth_getTransactionCount" \in prep_local.rpc_failed
    /\ ~Written

\* C28 (as claimed): a deposit whose amount is not positive or whose
\* deadline is already past never yields a descriptor.
InvalidDeposit ==
    /\ operation.op = "Deposit"
    /\ LET a == Unwrap(operation.args) IN
       \/ parse_ether(a.amount) = Ok(ZERO)
       \/ a.deadline <= Now

C28_InvalidDepositRejected ==
    InvalidDeposit => prep_tx_params = None /\ ~Written

\* C29 (as claimed): for every operation compose ends with a descriptor or
\* with an error value; the descriptor of a state-changing operation has
\* mode Call, the contract as target and the call data of the codec.
C29_EveryOperationComposed ==
    /\ prep_outcome # "Panic"
    /\ (PrepDone /\ prep_outcome \in {"Prepared", "QrError"}) => Written
    /\ (IsSome(prep_tx_params) /\ operation.op # "Deploy")
          => /\ Descriptor.mode = "Call"
             /\ Descriptor.transaction.to = prep_local.contract
             /\ IsSome(Descriptor.transaction.to)
             /\ Some(Descriptor.transaction.data) = prep_local.data

\* C30: a descriptor built by the Composer has prepared = true, signed =
\* false and no signedAt, and is never changed afterwards; the Signer
\* accepts it as prepared, and every signed transaction made from it has
\* prepared = true, signed = true and signedAt set.
C30_Flags ==
    IsSome(prep_tx_params)
        => /\ Descriptor.metadata.prepared
           /\ ~Descriptor.metadata.signed
           /\ Descriptor.metadata.signed_at = None
           /\ validate(Descriptor) = Ok({})
           /\ \A k \in PrivateKeys, now \in Times :
                 LET res == sign_transaction(Descriptor, k, now) IN
                 res.is_ok
                     => /\ Unwrap(res.value).metadata.prepared
                        /\ Unwrap(res.value).metadata.signed
                        /\ Unwrap(res.value).metadata.signed_at = Some(now)

C30_FlagLifecycle ==
    /\ []C30_Flags
    /\ [][IsSome(prep_tx_params) => prep_tx_params' = prep_tx_params]_vars

C30_Witness ==
    /\ Written
    /\ Descriptor.mode = "Call"
    /\ sign_transaction(Descriptor, PrivateKey, "t2").is_ok

\* C31 (as claimed): the gas limit of a descriptor is the gas estimate of the
\* network with 20% added and rounded up, ceil(estimate * 120 / 100), also
\* for estimates that are no multiples of 5.
C31_GasLimitRoundedUp ==
    IsSome(prep_local.gas_limit)
        => LET estimate == Unwrap(prep_local.gas_u64)
               gas_limit == Unwrap(prep_local.gas_limit)[1]
           IN  /\ gas_limit * 100 >= estimate * 120
               /\ (gas_limit - 1) * 100 < estimate * 120

\* C32: whenever the fee-history query succeeds, the max priority fee is
\* 1,500,000,000 wei and the max fee is twice the base fee of the latest
\* block (1 gwei when the history reports none) plus the max priority fee;
\* the max fee is at least the max priority fee and covers a doubled base
\* fee; the descriptor carries these two fees.
FeeHistoryFailed == "eth_feeHistory" \in prep_local.rpc_failed
GasPriceFailed == "eth_gasPrice" \in prep_local.rpc_failed

C32_FeeMarketFees ==
    (IsSome(prep_local.gas_prices) /\ ~FeeHistoryFailed)
        => LET prices == Unwrap(prep_local.gas_prices)
               max_fee == Unwrap(prices[1])[1]
               priority == Unwrap(prices[2])[1]
               base == IF IsSome(prep_local.base_fee)
                       THEN Unwrap(prep_local.base_fee)
                       ELSE DEFAULT_BASE_FEE
           IN  /\ priority * WEI_PER_UNIT = 1500000000
               /\ DEFAULT_BASE_FEE * WEI_PER_UNIT = 1000000000
               /\ max_fee = 2 * base + priority
               /\ max_fee >= priority
               /\ max_fee - priority >= 2 * base
               /\ fits_u128(Unwrap(prices[1])) /\ fits_u128(Unwrap(prices[2]))
               /\ IsSome(prep_tx_params)
                     => /\ Descriptor.transaction.max_fee_per_gas = prices[1]
                        /\ Descriptor.transaction.max_priority_fee_per_gas =
                              prices[2]

C32_Witness ==
    /\ Written
    /\ ~FeeHistoryFailed
    /\ prep_local.base_fee = Some(4)
    /\ Descriptor.transaction.max_fee_per_gas = Some(U256_from(11))

\* C33: a failed fee-history query alone never fails compose: when the
\* gas-price query then succeeds a type-0 descriptor with gasPrice only is
\* built; compose fails on the fee data only when both queries failed; the
\* descriptor has type 2 exactly when the fee-history query succeeded.
FeeDataError ==
    prep_outcome \in {"RpcError: eth_feeHistory", "RpcError: eth_gasPrice"}

C33_FeeHistoryFailureFallsBack ==
    /\ FeeDataError
          => PrepDone /\ FeeHistoryFailed /\ GasPriceFailed
                      /\ prep_tx_params = None /\ ~Written
    /\ (FeeHistoryFailed /\ GasPriceFailed)
          => PrepDone /\ prep_outcome = "RpcError: eth_gasPrice"
    /\ (FeeHistoryFailed /\ ~GasPriceFailed)
          => /\ ~FeeDataError
             /\ "eth_gasPrice" \in rpc_log
             /\ prep_pc \in {"write", "done"}
             /\ IsSome(prep_local.gas_prices)
             /\ PrepDone => IsSome(prep_tx_params)
    /\ IsSome(prep_tx_params)
          => LET t == Descriptor.transaction IN
             /\ t.tx_type \in {0, 2}
             /\ t.tx_type = 2 <=> ~FeeHistoryFailed
             /\ FeeHistoryFailed
                   => /\ t.tx_type = 0
                      /\ IsSome(t.gas_price)
                      /\ t.max_fee_per_gas = None
                      /\ t.max_priority_fee_per_gas = None

C33_Witness ==
    /\ PrepDone /\ prep_outcome = "Prepared"
    /\ FeeHistoryFailed /\ ~GasPriceFailed
    /\ Descriptor.transaction.tx_type = 0
    /\ Descriptor.mode = "Deploy"

(* ------------------------ claims: end to end --------------------------- *)
\* C34 (as claimed): every signed transaction that passed the chain id
\* check of broadcast and was submitted is bound, in its signed payload, to
\* the chain id of the connected network; a descriptor whose body and
\* metadata name different chain ids is never signed and then submitted.
C34_SubmittedBoundToNetwork ==
    submits > 0
        => /\ Unwrap(chain_id) = signed_tx.metadata.network.chain_id
           /\ payload_chain_id(Raw) = net_chain_id
           /\ signed_tx \notin ForeignChainOutputs

\* C35 (as claimed): in every signed transaction the sign phase writes, a
\* predicted contract address comes with a payload that creates a contract
\* (no `to` in the body), and the mode Call comes with a `to` in the body.
C35_ModeAndTargetAgree ==
    Signed
        => LET payload == SignedTxOut.signed_transaction.payload IN
           /\ IsSome(SignedTxOut.predicted_contract_address)
                 => payload.to.kind = "Create" /\ Body.to = None
           /\ SignedTxOut.mode = "Call"
                 => payload.to.kind = "Call" /\ IsSome(Body.to)

\* C36 (as claimed): in prepare, sign and broadcast alike, an invocation
\* that ends with an error has written no output file, also when a QR code
\* was asked for.
C36_ErrorWritesNothing ==
    /\ (PrepDone /\ prep_outcome # "Prepared") => ~Written
    /\ (SignDone /\ ~ReturnsOk(sign_outcome)) => ~Signed
    /\ (Done /\ outcome # "Confirmed") => writes = 0

\* C37: a broadcast invocation submits the raw transaction at most once,
\* only after the chain id check passed and the lookup returned no
\* transaction; polling never submits, and after a failed submission the
\* invocation has ended without a poll.
C37_Submitted ==
    /\ submits <= 1
    /\ submits > 0
          => /\ IsSome(chain_id)
             /\ Unwrap(chain_id) = signed_tx.metadata.network.chain_id
             /\ lookups = 1
             /\ IsSome(existing_tx) /\ ~Unwrap(existing_tx).is_ok
    /\ outcome = "SubmitError" => Done /\ submits = 1 /\ polls = 0
    /\ (submits > 0 /\ polls > 0) => IsSome(sent_hash)
    /\ pc \in {"wait_for_receipt", "sleep"}
          => submits = 0 \/ IsSome(sent_hash)

C37_SubmitAtMostOnce ==
    /\ []C37_Submitted
    /\ [][/\ submits' > submits
                => pc = "broadcast_transaction" /\ polls = 0 /\ submits = 0
          /\ polls' > polls => submits' = submits /\ net_pool' = net_pool]_vars

C37_Witness ==
    /\ submits = 1 /\ polls > 1
    /\ IsSome(sent_hash)
    /\ Unwrap(existing_tx) = Err("Transaction not found")

\* C38: a receipt with block number and block hash ends the invocation as
\* Confirmed whatever its status: the status of the mined transaction, 0 for
\* a failed execution as much as 1, is what the receipt file holds.
C38_StatusNotInspected ==
    /\ \A answer \in eth_getTransactionReceipt(signed_tx.tx_hash) :
          (/\ IsSome(answer)
           /\ IsSome(Unwrap(answer).block_number)
           /\ IsSome(Unwrap(answer).block_hash))
              => LET res == receipt_to_tx_receipt(Unwrap(answer)) IN
                 /\ res.is_ok
                 /\ Unwrap(res.value).status =
                       (IF Unwrap(answer).status THEN 1 ELSE 0)
    /\ IsSome(receipt)
          => /\ Done /\ outcome = "Confirmed"
             /\ output_file = receipt
             /\ \E m \in net_mined :
                   /\ Keccak256(m.raw) = signed_tx.tx_hash
                   /\ Unwrap(receipt).status = (IF m.status THEN 1 ELSE 0)
    /\ outcome # "Transaction failed"

C38_Witness ==
    /\ Done /\ outcome = "Confirmed"
    /\ writes = 1
    /\ Unwrap(output_file).status = 0

\* C39: crypto::sign_transaction by itself, on descriptors that no
\* validation has seen, returns an error and no SignedTx for a type-2 body
\* without maxFeePerGas or maxPriorityFeePerGas, a type-0 body without
\* gasPrice and a body of any other type; a key whose address is not the
\* body's from is reported before any of these.
SignerFeeError(tx) ==
    IF tx.tx_type = 2
    THEN IF ~IsSome(tx.max_fee_per_gas)
         THEN "max_fee_per_gas required for EIP-1559"
         ELSE "max_priority_fee_per_gas required for EIP-1559"
    ELSE IF tx.tx_type = 0
    THEN "gas_price required for legacy transaction"
    ELSE "Unsupported transaction type"

C39_SignerChecksFees ==
    SignDone
        => LET k == Unwrap(private_key) IN
           /\ LacksRequiredFee(Body)
                 => ~Signed /\ sign_outcome \notin {"Signed", "Panic"}
           /\ (k # 0 /\ address(k) # Body.from)
                 => sign_outcome =
                       "Private key address does not match transaction from address"
           /\ (k # 0 /\ address(k) = Body.from /\ LacksRequiredFee(Body))
                 => sign_outcome = SignerFeeError(Body)
           /\ Signed => ~LacksRequiredFee(Body)

C39_Witness ==
    /\ SignDone
    /\ ~tx_params.metadata.prepared
    /\ private_key = Some(PrivateKey)
    /\ Body.tx_type = 2
    /\ IsSome(Body.max_fee_per_gas) /\ ~IsSome(Body.max_priority_fee_per_gas)
    /\ Body.gas_limit = Pow64
    /\ sign_outcome = "max_priority_fee_per_gas required for EIP-1559"

\* C40 (as claimed): a deposit descriptor carries a value, the deposit
\* amount, exactly when no token address was given, and exactly then the
\* token argument of the call data is the zero address; call data that
\* names the zero token always comes with value = amount.
C40_NativeValueIffNoToken ==
    (IsSome(prep_tx_params) /\ operation.op = "Deposit")
        => LET t == Descriptor.transaction
               a == Unwrap(operation.args)
               amount == Unwrap(parse_ether(a.amount).value)
               token_arg == t.data.arguments[1]
           IN  /\ IsSome(t.value) <=> a.token = None
               /\ IsSome(t.value) => t.value = Some(amount)
               /\ token_arg = AddressZERO <=> a.token = None
               /\ token_arg = AddressZERO => t.value = Some(amount)

====
